---- MODULE Spec2Model ----
(***************************************************************************)
(* Model of the multi-binary bridge (bridge/bn_mcp_bridge_multi_http.py):  *)
(* the discovery registry BinaryServerRegistry and the retrying client     *)
(* _request.  bridge/bn_mcp_bridge_http.py holds the same _request for one *)
(* fixed server, without the target resolution.                            *)
(*                                                                         *)
(* In Spec one invocation runs at a time.  Every blocking call (a status   *)
(* probe, an operation request, a sleep) is a step of its own, and the     *)
(* wall clock may advance between any two steps.  The variables entry,     *)
(* probeLog, reqLog, sleeps and completedAt record what the running        *)
(* invocation did; the program does not read them.                         *)
(***************************************************************************)
EXTENDS Integers, Sequences, FiniteSets, TLC

\* ------------------------------------------------------------------------
\* Configuration (bn_mcp_bridge_multi_http.py lines 16-25, 37)
\* ------------------------------------------------------------------------
BINJA_BASE_URL == "http://localhost"
BINJA_BASE_PORT == 9009
\* The source probes 10 ports; the model probes MAX_SERVERS of them.
MAX_SERVERS == 2
\* seconds
CONNECT_TIMEOUT == 1
READ_TIMEOUT == 8
MAX_RETRIES == 2
\* 0.2 s, in milliseconds
RETRY_BACKOFF_BASE == 200
\* self.discovery_interval = 30.0 s, in clock units of 10 s
discovery_interval == 3
\* timeout=2.0 of the status probe, in seconds
PROBE_TIMEOUT == 2
\* The wall clock stops advancing at MaxClock (10 s units).
MaxClock == 6
\* CACHE_TTL = 3.0, in seconds
CACHE_TTL == 3
\* time.monotonic() stops advancing at MaxMono (seconds).
MaxMono == 5

Tasks == {"t1"}
\* two invocations that run at the same time
Threads == {"t1", "t2"}
Ports == BINJA_BASE_PORT .. (BINJA_BASE_PORT + MAX_SERVERS - 1)

\* Python's None where a str is expected (binary_id, error, last_err).
None == "None"
\* A key that a JSON object does not have.
Absent == "<absent>"
\* A timeout argument of requests is a (connect, read) pair; NoTimeout is its
\* default, None: requests then waits without bound.
NoTimeout == <<>>

\* ------------------------------------------------------------------------
\* Values: what json decoding yields, as far as the code looks into it.
\* ------------------------------------------------------------------------
Val(type, src, loaded, filename) ==
    [type |-> type, src |-> src, loaded |-> loaded, filename |-> filename]
PyNone == Val("None", "none", Absent, Absent)
JsonDict(loaded, filename) == Val("dict", "json", loaded, filename)
JsonList == Val("list", "json", Absent, Absent)
\* txt.splitlines(): a list of str
LinesOf(n) == Val("list", IF n = 0 THEN "nolines" ELSE "lines", Absent, Absent)

\* ------------------------------------------------------------------------
\* HTTP bodies.  lead is what precedes the document: "" or a character
\* that str.strip() removes and the JSON grammar rejects (form feed).
\* text is the syntactic class of the document.
\* ------------------------------------------------------------------------
Body(lead, text, loaded, filename) ==
    [lead |-> lead, text |-> text, loaded |-> loaded, filename |-> filename]
PlainBody(lead, text) == Body(lead, text, Absent, Absent)

\* json decoder (r.json(), json.loads): accepts a well-formed document only
JsonDecodes(b) == b.lead = "" /\ b.text \in {"object", "array", "null"}
JsonValue(b) ==
    CASE b.text = "object" -> JsonDict(b.loaded, b.filename)
      [] b.text = "array" -> JsonList
      [] OTHER -> PyNone
\* r.text.strip()
Strip(b) == [b EXCEPT !.lead = ""]
\* txt.startswith("{") or txt.startswith("[")
StartsWithBrace(b) ==
    b.lead = "" /\ b.text \in {"object", "array", "truncated_object"}
\* txt.splitlines()
SplitLines(b) == LinesOf(IF b.text = "empty" THEN 0 ELSE 2)

\* ------------------------------------------------------------------------
\* What the server on a port does with one HTTP request.
\* ------------------------------------------------------------------------
Refused == [kind |-> "refused", status |-> 0, reason |-> "", body |-> PlainBody("", "empty")]
\* accepts the connection and never answers
Silent == [kind |-> "silent", status |-> 0, reason |-> "", body |-> PlainBody("", "empty")]
\* accepts the connection and closes it before answering
Reset == [kind |-> "reset", status |-> 0, reason |-> "", body |-> PlainBody("", "empty")]
Respond(status, reason, body) ==
    [kind |-> "respond", status |-> status, reason |-> reason, body |-> body]

\* requests.get / session.get / session.post with the given timeout argument:
\* a response, a raised exception, or a call that never returns.
HttpCall(b, timeout) ==
    CASE b.kind = "refused" ->
           [t |-> "exc", type |-> "ConnectionError", msg |-> "Connection refused",
            status |-> 0, reason |-> "", body |-> b.body]
      [] b.kind = "reset" ->
           [t |-> "exc", type |-> "ConnectionError", msg |-> "Connection aborted",
            status |-> 0, reason |-> "", body |-> b.body]
      [] b.kind = "silent" ->
           IF timeout = NoTimeout
           THEN [t |-> "hang", type |-> "", msg |-> "",
                 status |-> 0, reason |-> "", body |-> b.body]
           ELSE [t |-> "exc", type |-> "ReadTimeout", msg |-> "Read timed out",
                 status |-> 0, reason |-> "", body |-> b.body]
      [] OTHER ->
           [t |-> "response", type |-> "", msg |-> "",
            status |-> b.status, reason |-> b.reason, body |-> b.body]

\* ------------------------------------------------------------------------
\* Registry: self.servers is a dict, kept in insertion order
\* ------------------------------------------------------------------------
BinaryId(port) == "port_" \o ToString(port)
Url(port) == BINJA_BASE_URL \o ":" \o ToString(port)

DictKeys(d) == {d[i].id : i \in 1..Len(d)}
\* dict.get(key): <<>> for None, <<record>> otherwise
DictGet(d, key) ==
    IF key \in DictKeys(d)
    THEN <<d[CHOOSE i \in 1..Len(d) : d[i].id = key]>>
    ELSE <<>>
\* next(iter(d.values())) if d else None
FirstValue(d) == IF Len(d) > 0 THEN <<d[1]>> ELSE <<>>

\* status.get("loaded") of a decoded status; raises unless status is a dict
Truthy(loaded) == loaded = "true"

\* ProbeEntries without the test of the loaded flag
ProbeEntriesAnyStatus(r, port, now) ==
    IF r.t # "response" THEN <<>>
    ELSE IF r.status # 200 THEN <<>>
    ELSE IF ~JsonDecodes(r.body) THEN <<>>
    ELSE IF JsonValue(r.body).type # "dict" THEN <<>>
    ELSE <<[id |-> BinaryId(port),
            url |-> Url(port),
            port |-> port,
            filename |-> IF JsonValue(r.body).filename = Absent
                         THEN "unknown" ELSE JsonValue(r.body).filename,
            last_seen |-> now]>>

\* lines 52-68: the entries one probe adds to discovered (none or one)
ProbeEntries(r, port, now) ==
    IF r.t # "response" THEN <<>>                       \* except Exception
    ELSE IF r.status # 200 THEN <<>>
    ELSE IF ~JsonDecodes(r.body) THEN <<>>              \* response.json() raises
    ELSE IF JsonValue(r.body).type # "dict" THEN <<>>   \* status.get raises
    ELSE IF ~Truthy(JsonValue(r.body).loaded) THEN <<>>
    ELSE <<[id |-> BinaryId(port),
            url |-> Url(port),
            port |-> port,
            filename |-> IF JsonValue(r.body).filename = Absent
                         THEN "unknown" ELSE JsonValue(r.body).filename,
            last_seen |-> now]>>

\* self.servers.update(discovered) in place of the replacement
Merge(old, discovered) ==
    LET kept == SelectSeq(old, LAMBDA e : e.id \notin DictKeys(discovered))
    IN kept \o discovered

\* line 70: self.servers = discovered
Replace(old, discovered) == discovered

\* a sweep that fills self.servers itself, entry by entry
BuildingInPlace(shared, local) == local

\* lines 46, 58: the loop fills the local dict discovered; self.servers is
\* not touched before line 70
Building(shared, local) == shared

\* line 53: requests.get(..., timeout=2.0)
ProbeTimeoutArg == <<PROBE_TIMEOUT, PROBE_TIMEOUT>>

\* the throttle with <= in place of <
ThrottledInclusive(now, last) == now - last <= discovery_interval

\* line 42: the throttle of discover_servers
Throttled(now, last) == now - last < discovery_interval

VARIABLES
    clock,           \* time.time(), in units of 10 s
    servers,         \* server_registry.servers
    last_discovery,  \* server_registry.last_discovery
    pc,              \* where each invocation stands
    op,              \* the operation it runs
    binary_id,       \* its binary_id argument
    method,          \* _request: its method argument
    endpoint,        \* _request: its endpoint argument
    now,             \* discover_servers: the local now
    port_offset,     \* discover_servers: the loop variable
    discovered,      \* discover_servers: the local discovered
    base_url,        \* _request: the local base_url
    attempt,         \* _request: the loop variable
    last_err,        \* _request: the local last_err
    ret,             \* what the operation returned
    \* history of the running invocation
    entry,           \* the registry as the invocation found it
    probeLog,        \* the outcome of each status probe it issued
    reqLog,          \* each operation request it issued
    sleeps,          \* each time.sleep it made, in ms
    completedAt      \* clock at the end of the last completed sweep

\* ttl_cache and the invocations of its methods
VARIABLES
    mono,            \* time.monotonic(), in seconds
    store,           \* ttl_cache.store: key -> [t, val]
    cpc,             \* where each invocation stands in get or set
    cop,             \* the method it runs and its arguments
    ckey,            \* get, set: the local k
    item,            \* get: the local item, <<>> for None
    cret,            \* what get returned
    \* history
    chist,           \* the clock that get read and the entry that it removed
    lastSet          \* key -> what the latest set on the key stored

\* _clamp_paging and the shaping of the envelope, applied to given inputs
VARIABLES
    input,           \* offset, limit and what _request returned
    paging,          \* what _clamp_paging returned, <<>> before
    envelope         \* the envelope of _list_endpoint, <<>> before

\* the tools and the invocations of them
VARIABLES
    tpc,             \* where each tool invocation stands
    call,            \* the tool and its arguments
    tret,            \* what the tool returned, <<>> before
    \* history
    thist            \* the state the invocation found and what it did

\* the machine the bridge runs on
VARIABLE
    env              \* the ports on which a loaded instance answers, when followed

\* the plugin inside Binary Ninja (src/plugin/core)
VARIABLES
    manager_servers,   \* MultiBinaryManager._servers: binary id -> port of its server
    registry_servers,  \* MultiBinaryRegistry._servers: binary id -> port
    port_to_binary,    \* MultiBinaryRegistry._port_to_binary: port -> binary id
    next_port_index,   \* MultiBinaryRegistry._next_port_index
    running,           \* the MCPServer objects that run: port -> binary id
    mpc,               \* where each invocation of a manager method stands
    mlocal,            \* start_server_for_binary: binary_view, binary_id, port
    outcome            \* what the invocation did and returned

cacheVars == <<mono, store, cpc, cop, ckey, item, cret, chist, lastSet>>
normVars == <<input, paging, envelope>>
toolVars == <<tpc, call, tret, thist>>
\* what a tool leaves alone besides the registry and the cache
pluginTables == <<manager_servers, registry_servers, port_to_binary, next_port_index, running>>
pluginVars == <<pluginTables, mpc, mlocal, outcome>>
hostVars == <<env, pluginVars>>
idleVars == <<normVars, hostVars>>
\* the state of everything that calls the registry and _request
callerVars == <<cacheVars, normVars, toolVars, hostVars>>
\* the state of the registry and of the invocations of its methods and of _request
requestVars == <<clock, servers, last_discovery, pc, op, binary_id, method, endpoint, now,
                 port_offset, discovered, base_url, attempt, last_err, ret,
                 entry, probeLog, reqLog, sleeps, completedAt>>

\* everything but the cache
cacheFrame == <<requestVars, normVars, toolVars, hostVars>>

vars == <<requestVars, callerVars>>

regVars == <<servers, last_discovery>>
sweepLocals == <<now, port_offset, discovered>>
reqLocals == <<base_url, attempt, last_err>>
reqHist == <<reqLog, sleeps>>

RegistryOps == {"discover_servers", "get_servers", "get_server_by_id", "get_default_server"}
Ops == RegistryOps \cup {"_request"}
\* binary ids a caller may pass: every id the registry can hold, and one it cannot
CallerIds == {BinaryId(p) : p \in Ports} \cup {"port_1"}

NoRet == [tag |-> "none", mapping |-> <<>>, data |-> PyNone, err |-> None]
RetNone == [NoRet EXCEPT !.tag = "None"]
RetMapping(d) == [NoRet EXCEPT !.tag = "mapping", !.mapping = d]
RetInfo(o) == [NoRet EXCEPT !.tag = "info", !.mapping = o]
RetPair(data, err) == [NoRet EXCEPT !.tag = "pair", !.data = data, !.err = err]
RetRaise(msg) == [NoRet EXCEPT !.tag = "raise", !.err = msg]

NoEntry == [servers |-> <<>>, last_discovery |-> 0, completedAt |-> 0, swept |-> FALSE]

\* a dict without entries
EmptyDict == <<>>
\* returned is "" while the method runs; started says that the call has
\* started a server; attempted are the ids that stop_all_servers has passed
\* to stop_server_for_binary
NoOutcome ==
    [op |-> "none", binary |-> "", port |-> <<>>, raised |-> "", returned |-> "",
     started |-> FALSE, attempted |-> {}]
NoLocal == [view |-> "", id |-> "", port |-> 0]
\* MultiBinaryManager.__init__ and MultiBinaryRegistry.__init__
InitPlugin ==
    /\ manager_servers = EmptyDict
    /\ registry_servers = EmptyDict
    /\ port_to_binary = EmptyDict
    /\ next_port_index = 0
    /\ running = EmptyDict
    /\ mpc = [t \in Threads |-> "idle"]
    /\ mlocal = [t \in Threads |-> NoLocal]
    /\ outcome = [t \in Threads |-> NoOutcome]

\* The registry is new (lines 35-37); time.time() is more than
\* discovery_interval past 0, so the first call sweeps.
InitFramesOf(T) ==
    /\ clock = discovery_interval
    /\ pc = [t \in T |-> "idle"]
    /\ op = [t \in T |-> "none"]
    /\ binary_id = [t \in T |-> None]
    /\ method = [t \in T |-> "GET"]
    /\ endpoint = [t \in T |-> ""]
    /\ now = [t \in T |-> 0]
    /\ port_offset = [t \in T |-> 0]
    /\ discovered = [t \in T |-> <<>>]
    /\ base_url = [t \in T |-> ""]
    /\ attempt = [t \in T |-> 0]
    /\ last_err = [t \in T |-> None]
    /\ ret = [t \in T |-> NoRet]
    /\ entry = [t \in T |-> NoEntry]
    /\ probeLog = [t \in T |-> <<>>]
    /\ reqLog = [t \in T |-> <<>>]
    /\ sleeps = [t \in T |-> <<>>]

\* the registry after construction (lines 34-37)
InitOf(T) ==
    /\ InitFramesOf(T)
    /\ servers = <<>>
    /\ last_discovery = 0
    /\ completedAt = 0

\* time passes
Tick ==
    /\ clock < MaxClock
    /\ clock' = clock + 1
    /\ UNCHANGED <<servers, last_discovery, pc, op, binary_id, method, endpoint, now,
                   port_offset, discovered, base_url, attempt, last_err, ret,
                   entry, probeLog, reqLog, sleeps, completedAt,
                   callerVars>>

\* ------------------------------------------------------------------------
\* discover_servers (lines 39-72)
\* ------------------------------------------------------------------------
\* What a status endpoint may answer to a probe.
ProbeBehaviours ==
    { Refused, Silent,
      Respond(500, "Internal Server Error", Body("", "object", "true", "a.exe")),
      Respond(200, "OK", PlainBody("", "truncated_object")),
      Respond(200, "OK", PlainBody("", "array")),
      Respond(200, "OK", Body("", "object", "false", "a.exe")),
      Respond(200, "OK", Body("", "object", Absent, "a.exe")),
      Respond(200, "OK", Body("", "object", "true", "a.exe")),
      Respond(200, "OK", Body("", "object", "true", Absent)) }

\* What a probe showed: the server is loaded, answers without a loaded
\* binary, or the probe failed.
Observed(r) ==
    IF r.t = "response" /\ r.status = 200 /\ r.body.lead = "" /\ r.body.text = "object"
    THEN IF r.body.loaded = "true" THEN "loaded" ELSE "not_loaded"
    ELSE "failed"

\* lines 41-46: every registry method starts with discover_servers(); the
\* sweep is skipped when the throttle holds.
DiscoverEnter(t) ==
    /\ now' = [now EXCEPT ![t] = clock]
    /\ entry' = [entry EXCEPT ![t] =
                   [servers |-> servers, last_discovery |-> last_discovery,
                    completedAt |-> completedAt,
                    swept |-> ~Throttled(clock, last_discovery)]]
    /\ IF Throttled(clock, last_discovery)
       THEN /\ pc' = [pc EXCEPT ![t] = "read"]
            /\ UNCHANGED <<port_offset, discovered>>
       ELSE /\ pc' = [pc EXCEPT ![t] = "probe"]
            /\ port_offset' = [port_offset EXCEPT ![t] = 0]
            /\ discovered' = [discovered EXCEPT ![t] = <<>>]
    /\ UNCHANGED <<clock, regVars, reqLocals, ret, probeLog, reqHist, completedAt>>

CallDiscoverServers(t) ==
    /\ pc[t] = "idle"
    /\ op' = [op EXCEPT ![t] = "discover_servers"]
    /\ UNCHANGED <<binary_id, method, endpoint>>
    /\ DiscoverEnter(t)
    /\ UNCHANGED callerVars

CallGetServers(t) ==
    /\ pc[t] = "idle"
    /\ op' = [op EXCEPT ![t] = "get_servers"]
    /\ UNCHANGED <<binary_id, method, endpoint>>
    /\ DiscoverEnter(t)
    /\ UNCHANGED callerVars

GetServerByIdEnter(t, id) ==
    /\ pc[t] = "idle"
    /\ binary_id' = [binary_id EXCEPT ![t] = id]
    /\ op' = [op EXCEPT ![t] = "get_server_by_id"]
    /\ UNCHANGED <<method, endpoint>>
    /\ DiscoverEnter(t)

CallGetServerById(t) ==
    /\ \E id \in CallerIds : GetServerByIdEnter(t, id)
    /\ UNCHANGED callerVars

CallGetDefaultServer(t) ==
    /\ pc[t] = "idle"
    /\ op' = [op EXCEPT ![t] = "get_default_server"]
    /\ UNCHANGED <<binary_id, method, endpoint>>
    /\ DiscoverEnter(t)
    /\ UNCHANGED callerVars

\* the tools' endpoints: a GET of a list, the POST of decompile
Endpoint(m) == IF m = "GET" THEN "methods" ELSE "decompile"

\* lines 112-120: _request starts by resolving its target in the registry
RequestEnter(t, m, ep, id) ==
    /\ pc[t] = "idle"
    /\ binary_id' = [binary_id EXCEPT ![t] = id]
    /\ method' = [method EXCEPT ![t] = m]
    /\ endpoint' = [endpoint EXCEPT ![t] = ep]
    /\ op' = [op EXCEPT ![t] = "_request"]
    /\ DiscoverEnter(t)

CallRequest(t) ==
    /\ \E id \in CallerIds \cup {None}, m \in {"GET", "POST"} :
         RequestEnter(t, m, Endpoint(m), id)
    /\ UNCHANGED callerVars

\* a dict that iterates from its latest entry to its first
AccumulateReversed(d, e) == e \o d
\* a loop that starts over with an empty dict when a probe adds nothing
AccumulateOrReset(d, e) == IF e = <<>> THEN <<>> ELSE d \o e
\* a loop that adds the entry of a probe twice
AccumulateTwice(d, e) == d \o e \o e
\* lines 59, 66-68: the entry is added to discovered; continue
Accumulate(d, e) == d \o e

\* the instances are not followed: a probe may get any answer
NotFollowed == [followed |-> FALSE, live |-> {}]
\* the instances are followed: a probe of a port gets the answer of a loaded
\* instance exactly when one is live on it
Followed(L) == [followed |-> TRUE, live |-> L]
Answers(r, port) == env.followed => ((port \in env.live) <=> (Observed(r) = "loaded"))

\* lines 48-68: one iteration of the probing loop
Probe(t) ==
    /\ pc[t] = "probe"
    /\ \E b \in ProbeBehaviours :
         LET port == BINJA_BASE_PORT + port_offset[t]
             r == HttpCall(b, ProbeTimeoutArg)
         IN /\ Answers(r, port)
            /\ discovered' = [discovered EXCEPT ![t] =
                                Accumulate(@, ProbeEntries(r, port, now[t]))]
            /\ probeLog' = [probeLog EXCEPT ![t] =
                              Append(@, [port |-> port, saw |-> Observed(r)])]
    /\ servers' = Building(servers, discovered'[t])
    /\ port_offset' = [port_offset EXCEPT ![t] = @ + 1]
    /\ pc' = [pc EXCEPT ![t] = IF port_offset[t] + 1 < MAX_SERVERS THEN "probe" ELSE "commit"]
    /\ UNCHANGED <<clock, last_discovery, op, binary_id, method, endpoint, now, reqLocals, ret,
                   entry, reqHist, completedAt,
                   callerVars>>

\* lines 70-71: the sweep is complete
Commit(t) ==
    /\ pc[t] = "commit"
    /\ servers' = Replace(servers, discovered[t])
    /\ last_discovery' = now[t]
    /\ completedAt' = clock
    /\ pc' = [pc EXCEPT ![t] = "read"]
    /\ UNCHANGED <<clock, op, binary_id, method, endpoint, sweepLocals, reqLocals, ret,
                   entry, probeLog, reqHist,
                   callerVars>>

\* ------------------------------------------------------------------------
\* The registry methods after discover_servers() has returned
\* ------------------------------------------------------------------------
Finish(t, r) ==
    /\ ret' = [ret EXCEPT ![t] = r]
    /\ pc' = [pc EXCEPT ![t] = "done"]

\* line 72: discover_servers returns None
ReturnDiscoverServers(t) ==
    /\ pc[t] = "read" /\ op[t] = "discover_servers"
    /\ Finish(t, RetNone)
    /\ UNCHANGED <<clock, regVars, op, binary_id, method, endpoint, sweepLocals, reqLocals,
                   entry, probeLog, reqHist, completedAt,
                   callerVars>>

\* line 77: return self.servers.copy()
ReadGetServers(t) ==
    /\ pc[t] = "read" /\ op[t] = "get_servers"
    /\ Finish(t, RetMapping(servers))
    /\ UNCHANGED <<clock, regVars, op, binary_id, method, endpoint, sweepLocals, reqLocals,
                   entry, probeLog, reqHist, completedAt,
                   callerVars>>

\* line 82: return self.servers.get(binary_id)
ReadGetServerById(t) ==
    /\ pc[t] = "read" /\ op[t] = "get_server_by_id"
    /\ Finish(t, RetInfo(DictGet(servers, binary_id[t])))
    /\ UNCHANGED <<clock, regVars, op, binary_id, method, endpoint, sweepLocals, reqLocals,
                   entry, probeLog, reqHist, completedAt,
                   callerVars>>

\* lines 86-87: the first value of the copy, or None
ReadGetDefaultServer(t) ==
    /\ pc[t] = "read" /\ op[t] = "get_default_server"
    /\ Finish(t, RetInfo(FirstValue(servers)))
    /\ UNCHANGED <<clock, regVars, op, binary_id, method, endpoint, sweepLocals, reqLocals,
                   entry, probeLog, reqHist, completedAt,
                   callerVars>>

\* a registry method or _request has returned; its locals are gone
PopFrame(t) ==
    /\ pc[t] \in {"done"}
    /\ pc' = [pc EXCEPT ![t] = "idle"]
    /\ op' = [op EXCEPT ![t] = "none"]
    /\ binary_id' = [binary_id EXCEPT ![t] = None]
    /\ method' = [method EXCEPT ![t] = "GET"]
    /\ endpoint' = [endpoint EXCEPT ![t] = ""]
    /\ now' = [now EXCEPT ![t] = 0]
    /\ port_offset' = [port_offset EXCEPT ![t] = 0]
    /\ discovered' = [discovered EXCEPT ![t] = <<>>]
    /\ base_url' = [base_url EXCEPT ![t] = ""]
    /\ attempt' = [attempt EXCEPT ![t] = 0]
    /\ last_err' = [last_err EXCEPT ![t] = None]
    /\ ret' = [ret EXCEPT ![t] = NoRet]
    /\ entry' = [entry EXCEPT ![t] = NoEntry]
    /\ probeLog' = [probeLog EXCEPT ![t] = <<>>]
    /\ reqLog' = [reqLog EXCEPT ![t] = <<>>]
    /\ sleeps' = [sleeps EXCEPT ![t] = <<>>]
    /\ UNCHANGED <<clock, regVars, completedAt>>

\* the invocation is over
Return(t) ==
    /\ PopFrame(t)
    /\ UNCHANGED callerVars

\* ------------------------------------------------------------------------
\* _request (lines 102-152)
\* ------------------------------------------------------------------------
\* What an operation endpoint may answer.
OpBehaviours ==
    { Refused, Reset, Silent,
      Respond(200, "OK", Body("", "object", Absent, Absent)),
      Respond(200, "OK", PlainBody("", "null")),
      Respond(200, "OK", Body("\f", "object", Absent, Absent)),
      Respond(200, "OK", PlainBody("", "truncated_object")),
      Respond(200, "OK", PlainBody("", "plain")),
      Respond(204, "No Content", PlainBody("", "empty")),
      Respond(300, "Multiple Choices", PlainBody("", "plain")),
      Respond(500, "Internal Server Error", PlainBody("", "plain")) }

\* a resolution that falls back to the default server for an unknown id
ResolveTargetOrDefault(d, id) ==
    IF id # None /\ DictGet(d, id) # <<>> THEN DictGet(d, id) ELSE FirstValue(d)

\* lines 113-123: the record of the target, <<>> when there is none
ResolveTarget(d, id) == IF id # None THEN DictGet(d, id) ELSE FirstValue(d)
\* lines 116, 122
ResolveError(id) ==
    IF id # None
    THEN "Binary server '" \o id \o "' not found"
    ELSE "No Binary Ninja servers available"

\* line 126: session.timeout = (CONNECT_TIMEOUT, READ_TIMEOUT)
SessionTimeoutAttr == <<CONNECT_TIMEOUT, READ_TIMEOUT>>
\* lines 133, 135: session.get / session.post are called without a timeout
\* keyword, and a requests Session has no timeout setting of its own: the
\* attribute set in line 126 is not read by the call.
EffectiveTimeout(sessionAttr, keyword) == keyword

Returned(data, err) == [t |-> "return", data |-> data, err |-> err, type |-> ""]
Raised(type, msg) == [t |-> "raise", data |-> PyNone, err |-> msg, type |-> type]

\* line 137
IsSuccess(status) == 200 <= status /\ status < 300
\* r.raise_for_status() in place of the return of line 146
StatusErrorRaises(r) == Raised("HTTPError", ToString(r.status) \o " " \o r.reason)

\* line 146
StatusError(r) == Returned(PyNone, ToString(r.status) \o " " \o r.reason)

\* lines 137-146: what the body of the try statement does with a response
TryBody(r) ==
    IF IsSuccess(r.status)
    THEN IF JsonDecodes(r.body)
         THEN Returned(JsonValue(r.body), None)                \* r.json()
         ELSE \* except json.JSONDecodeError
              IF StartsWithBrace(Strip(r.body))
              THEN IF JsonDecodes(Strip(r.body))
                   THEN Returned(JsonValue(Strip(r.body)), None)
                   ELSE Raised("JSONDecodeError", "Expecting value")  \* json.loads
              ELSE Returned(SplitLines(Strip(r.body)), None)
    ELSE StatusError(r)

\* a handler for the transport exceptions of requests only
CatchesTransportOnly(type) == type \in {"ConnectionError", "ReadTimeout"}

\* line 147: except Exception
Catches(type) == TRUE

\* lines 130-148: one pass through the try statement
TryStatement(r) ==
    LET o == CASE r.t = "exc" -> Raised(r.type, r.msg)
               [] r.t = "response" -> TryBody(r)
               [] OTHER -> [t |-> "hang", data |-> PyNone, err |-> None, type |-> ""]
    IN IF o.t = "raise" /\ Catches(o.type)
       THEN [o EXCEPT !.t = "caught"]
       ELSE o

\* the same sleep after every failure
BackoffConstant(k) == RETRY_BACKOFF_BASE

\* line 150
Backoff(k) == RETRY_BACKOFF_BASE * (k + 1)
\* line 149
SleepsAfter(k) == k < MAX_RETRIES
\* line 129: range(MAX_RETRIES + 1) has a next element
LoopContinues(k) == k < MAX_RETRIES
\* line 152
LastErrOrUnknown(e) == IF e = None \/ e = "" THEN "unknown error" ELSE e

\* lines 112-128: resolve the target once discover_servers() has returned
Resolve(t) ==
    /\ pc[t] = "read" /\ op[t] = "_request"
    /\ LET info == ResolveTarget(servers, binary_id[t])
       IN IF info = <<>>
          THEN /\ Finish(t, RetPair(PyNone, ResolveError(binary_id[t])))
               /\ UNCHANGED reqLocals
          ELSE /\ base_url' = [base_url EXCEPT ![t] = info[1].url]
               /\ attempt' = [attempt EXCEPT ![t] = 0]
               /\ last_err' = [last_err EXCEPT ![t] = None]
               /\ pc' = [pc EXCEPT ![t] = "attempt"]
               /\ UNCHANGED ret
    \* the sweep is over: its locals are gone, the mapping that was read stays on record
    /\ entry' = [entry EXCEPT ![t] = [NoEntry EXCEPT !.servers = servers]]
    /\ probeLog' = [probeLog EXCEPT ![t] = <<>>]
    /\ now' = [now EXCEPT ![t] = 0]
    /\ port_offset' = [port_offset EXCEPT ![t] = 0]
    /\ discovered' = [discovered EXCEPT ![t] = <<>>]
    /\ UNCHANGED <<clock, regVars, op, binary_id, method, endpoint, reqHist, completedAt,
                   callerVars>>

\* an attempt that takes the URL that the registry holds now
UrlLookedUpAgain(resolved, current) == current
\* line 131: the attempt takes the local base_url
UrlOfAttempt(resolved, current) == resolved
\* the URL that a lookup of the target in d gives, "" when it gives none
LookupUrl(d, id) == IF ResolveTarget(d, id) = <<>> THEN "" ELSE ResolveTarget(d, id)[1].url

\* lines 129-152: one attempt, up to its return or the start of its sleep
Attempt(t) ==
    /\ pc[t] = "attempt"
    /\ \E b \in OpBehaviours :
         LET timeout == EffectiveTimeout(SessionTimeoutAttr, NoTimeout)
             r == HttpCall(b, timeout)
             o == TryStatement(r)
         IN /\ reqLog' = [reqLog EXCEPT ![t] =
                            Append(@, [url |-> UrlOfAttempt(base_url[t], LookupUrl(servers, binary_id[t]))
                                               \o "/" \o endpoint[t],
                                       method |-> method[t],
                                       timeout |-> timeout,
                                       r |-> r])]
            /\ CASE o.t = "hang" ->
                      /\ pc' = [pc EXCEPT ![t] = "blocked"]
                      /\ UNCHANGED <<last_err, sleeps, ret>>
                 [] o.t = "return" ->
                      /\ Finish(t, RetPair(o.data, o.err))
                      /\ UNCHANGED <<last_err, sleeps>>
                 [] o.t = "raise" ->
                      /\ Finish(t, RetRaise(o.err))
                      /\ UNCHANGED <<last_err, sleeps>>
                 [] OTHER ->
                      /\ last_err' = [last_err EXCEPT ![t] = o.err]
                      /\ sleeps' = [sleeps EXCEPT ![t] =
                                      IF SleepsAfter(attempt[t])
                                      THEN Append(@, Backoff(attempt[t])) ELSE @]
                      /\ IF LoopContinues(attempt[t])
                         THEN /\ pc' = [pc EXCEPT ![t] = "sleep"]
                              /\ UNCHANGED ret
                         ELSE Finish(t, RetPair(PyNone, LastErrOrUnknown(o.err)))
    /\ UNCHANGED <<clock, regVars, op, binary_id, method, endpoint, sweepLocals, base_url,
                   attempt, entry, probeLog, completedAt,
                   callerVars>>

\* the sleep is over: the next iteration of the loop of line 129
WakeUp(t) ==
    /\ pc[t] = "sleep"
    /\ attempt' = [attempt EXCEPT ![t] = @ + 1]
    /\ pc' = [pc EXCEPT ![t] = "attempt"]
    /\ UNCHANGED <<clock, regVars, op, binary_id, method, endpoint, sweepLocals, base_url,
                   last_err, ret, entry, probeLog, reqHist, completedAt,
                   callerVars>>

\* ------------------------------------------------------------------------
\* TTLCache (lines 162-185; the same class in bn_mcp_bridge_http.py 80-103)
\* ------------------------------------------------------------------------
\* A params dict is a sequence of <<name, value>> pairs in insertion order.
\* The parameter names the bridge uses, in the order of str comparison.
ParamNames == <<"address", "format", "limit", "name", "offset", "pattern", "query", "size", "type">>
Rank(n) == CHOOSE i \in 1..Len(ParamNames) : ParamNames[i] = n

\* sorted(params.items()): the names of a dict differ, so the order of the
\* pairs is the order of their names
RECURSIVE Sorted(_)
Sorted(params) ==
    IF params = <<>> THEN <<>>
    ELSE LET i == CHOOSE i \in 1..Len(params) :
                      \A j \in 1..Len(params) : Rank(params[i][1]) <= Rank(params[j][1])
             rest == [j \in 1..(Len(params) - 1) |->
                         IF j < i THEN params[j] ELSE params[j + 1]]
         IN <<params[i]>> \o Sorted(rest)

\* a key that keeps the insertion order
KeyUnsorted(name, params) == <<name, params>>

\* lines 167-168: _key
Key(name, params) == <<name, Sorted(params)>>

\* dict operations on the store
StoreGet(s, key) == IF key \in DOMAIN s THEN <<s[key]>> ELSE <<>>
\* a store that keeps the entry that a key has
StorePutIfAbsent(s, key, e) ==
    [x \in DOMAIN s \cup {key} |-> IF x \in DOMAIN s THEN s[x] ELSE e]
StorePut(s, key, e) == [x \in DOMAIN s \cup {key} |-> IF x = key THEN e ELSE s[x]]
\* a get that leaves the expired entry in the store
StoreKeep(s, key) == s
\* a removal that empties the store
StoreClear(s, key) == <<>>
\* line 177: self.store.pop(k, None)
StorePop(s, key) == [x \in DOMAIN s \ {key} |-> s[x]]

\* an entry that expires when its age reaches the TTL
ExpiredAtTTL(at, t) == at - t >= CACHE_TTL
\* line 176
Expired(at, t) == at - t > CACHE_TTL

NoOp == [fn |-> "none", name |-> "", params |-> <<>>, value |-> <<>>]
GetOp(name, params) == [fn |-> "get", name |-> name, params |-> params, value |-> <<>>]
SetOp(name, params, v) == [fn |-> "set", name |-> name, params |-> params, value |-> <<v>>]
\* return values of get: None, or the stored value
NoCret == [tag |-> "none", val |-> <<>>]
Miss == [tag |-> "None", val |-> <<>>]
Hit(v) == [tag |-> "value", val |-> <<v>>]
NoHist == [at |-> 0, popped |-> <<>>, poppedAt |-> 0, replaced |-> <<>>]

InitCacheOf(T) ==
    /\ mono = 0
    /\ store = <<>>
    /\ cpc = [t \in T |-> "idle"]
    /\ cop = [t \in T |-> NoOp]
    /\ ckey = [t \in T |-> <<>>]
    /\ item = [t \in T |-> <<>>]
    /\ cret = [t \in T |-> NoCret]
    /\ chist = [t \in T |-> NoHist]
    /\ lastSet = <<>>

\* the monotonic clock advances
TickMono ==
    /\ mono < MaxMono
    /\ mono' = mono + 1
    /\ UNCHANGED <<store, cpc, cop, ckey, item, cret, chist, lastSet, cacheFrame>>

\* ttl_cache.get(name, params) is called
EnterGet(t, name, params) ==
    /\ cpc[t] = "idle"
    /\ cop' = [cop EXCEPT ![t] = GetOp(name, params)]
    /\ cpc' = [cpc EXCEPT ![t] = "lookup"]
    /\ UNCHANGED <<mono, store, ckey, item, cret, chist, lastSet>>

\* ttl_cache.set(name, params, value) is called
EnterSet(t, name, params, v) ==
    /\ cpc[t] = "idle"
    /\ cop' = [cop EXCEPT ![t] = SetOp(name, params, v)]
    /\ cpc' = [cpc EXCEPT ![t] = "store"]
    /\ UNCHANGED <<mono, store, ckey, item, cret, chist, lastSet>>

\* lines 171-174: k = self._key(...); item = self.store.get(k)
GetLookup(t) ==
    /\ cpc[t] = "lookup"
    /\ LET key == Key(cop[t].name, cop[t].params)
       IN /\ ckey' = [ckey EXCEPT ![t] = key]
          /\ item' = [item EXCEPT ![t] = StoreGet(store, key)]
          /\ chist' = [chist EXCEPT ![t].at = mono]
          /\ IF StoreGet(store, key) = <<>>
             THEN /\ cret' = [cret EXCEPT ![t] = Miss]
                  /\ cpc' = [cpc EXCEPT ![t] = "done"]
             ELSE /\ cpc' = [cpc EXCEPT ![t] = "check"]
                  /\ UNCHANGED cret
    /\ UNCHANGED <<mono, store, cop, lastSet, cacheFrame>>

\* lines 175-176, 179: t, val = item; the test of the age; return val
GetCheck(t) ==
    /\ cpc[t] = "check"
    /\ chist' = [chist EXCEPT ![t].at = mono]
    /\ IF Expired(mono, item[t][1].t)
       THEN /\ cpc' = [cpc EXCEPT ![t] = "pop"]
            /\ UNCHANGED cret
       ELSE /\ cret' = [cret EXCEPT ![t] = Hit(item[t][1].val)]
            /\ cpc' = [cpc EXCEPT ![t] = "done"]
    /\ UNCHANGED <<mono, store, cop, ckey, item, lastSet, cacheFrame>>

\* lines 177-178: self.store.pop(k, None); return None
GetPop(t) ==
    /\ cpc[t] = "pop"
    /\ store' = StorePop(store, ckey[t])
    /\ chist' = [chist EXCEPT ![t].popped = StoreGet(store, ckey[t]),
                              ![t].poppedAt = mono]
    /\ cret' = [cret EXCEPT ![t] = Miss]
    /\ cpc' = [cpc EXCEPT ![t] = "done"]
    /\ UNCHANGED <<mono, cop, ckey, item, lastSet, cacheFrame>>

\* lines 182-183: k = self._key(...); self.store[k] = (_now(), value)
Set(t) ==
    /\ cpc[t] = "store"
    /\ LET key == Key(cop[t].name, cop[t].params)
           e == [t |-> mono, val |-> cop[t].value[1]]
       IN /\ ckey' = [ckey EXCEPT ![t] = key]
          /\ store' = StorePut(store, key, e)
          /\ lastSet' = StorePut(lastSet, key, [e |-> e, params |-> cop[t].params])
          /\ chist' = [chist EXCEPT ![t].at = mono, ![t].replaced = StoreGet(store, key)]
    /\ cpc' = [cpc EXCEPT ![t] = "done"]
    /\ UNCHANGED <<mono, cop, item, cret, cacheFrame>>

\* get or set has returned; its locals are gone
DropCacheLocals(t) ==
    /\ cpc' = [cpc EXCEPT ![t] = "idle"]
    /\ cop' = [cop EXCEPT ![t] = NoOp]
    /\ ckey' = [ckey EXCEPT ![t] = <<>>]
    /\ item' = [item EXCEPT ![t] = <<>>]
    /\ cret' = [cret EXCEPT ![t] = NoCret]
    /\ chist' = [chist EXCEPT ![t] = NoHist]

LeaveCache(t) ==
    /\ DropCacheLocals(t)
    /\ UNCHANGED <<mono, store, lastSet>>

\* What the callers of the cache pass: the same parameters in two insertion
\* orders, another limit, and values to store.
CacheNames == {"methods_default"}
CacheParams ==
    { <<<<"offset", 0>>, <<"limit", 1>>>>,
      <<<<"limit", 1>>, <<"offset", 0>>>>,
      <<<<"offset", 0>>, <<"limit", 2>>>> }
CacheValues == {"v1", "v2"}

CallGet(t) ==
    /\ \E name \in CacheNames, params \in CacheParams : EnterGet(t, name, params)
    /\ UNCHANGED cacheFrame

CallSet(t) ==
    /\ \E name \in CacheNames, params \in CacheParams, v \in CacheValues :
         EnterSet(t, name, params, v)
    /\ UNCHANGED cacheFrame

\* one key, written and read by two invocations
RaceParams == {<<<<"offset", 0>>, <<"limit", 1>>>>}

RaceGet(t) ==
    /\ \E name \in CacheNames, params \in RaceParams : EnterGet(t, name, params)
    /\ UNCHANGED cacheFrame

RaceSet(t) ==
    /\ \E name \in CacheNames, params \in RaceParams, v \in CacheValues :
         EnterSet(t, name, params, v)
    /\ UNCHANGED cacheFrame

CacheReturn(t) ==
    /\ cpc[t] = "done"
    /\ LeaveCache(t)
    /\ UNCHANGED cacheFrame

\* ------------------------------------------------------------------------
\* Properties
\* ------------------------------------------------------------------------
Requesting(t) == op[t] = "_request" /\ pc[t] \in {"attempt", "sleep", "blocked", "done"}
\* the attempt ended in a transport-level failure
TransportFailure(e) == e.r.t = "exc"
\* the attempt received a response with a 2xx status
Answered2xx(e) == e.r.t = "response" /\ e.r.status \in 200..299
\* the attempt received a response with another status
AnsweredError(e) == e.r.t = "response" /\ e.r.status \notin 200..299

\* C1: when the backend fails with a transport error on exactly the first N
\* attempts (N <= MAX_RETRIES) and then answers 2xx, _request returns the
\* success payload with error None after exactly N sleeps and N+1 attempts.
C1_RetryBound ==
    \A t \in Tasks : \A N \in 0..MAX_RETRIES :
        ( /\ Requesting(t)
          /\ Len(reqLog[t]) >= N + 1
          /\ \A i \in 1..N : TransportFailure(reqLog[t][i])
          /\ Answered2xx(reqLog[t][N + 1]) )
        => /\ pc[t] = "done"
           /\ ret[t].tag = "pair"
           /\ ret[t].err = None
           /\ JsonDecodes(reqLog[t][N + 1].r.body)
                => ret[t].data = JsonValue(reqLog[t][N + 1].r.body)
           /\ Len(reqLog[t]) = N + 1
           /\ Len(sleeps[t]) = N

\* C2: an attempt that receives a non-2xx response is the last one: _request
\* returns (None, "<status> <reason>") at once, with no sleep after it.
C2_NoRetryOnStatusError ==
    \A t \in Tasks : \A i \in 1..Len(reqLog[t]) :
        AnsweredError(reqLog[t][i])
        => /\ i = Len(reqLog[t])
           /\ pc[t] = "done"
           /\ ret[t] = RetPair(PyNone, ToString(reqLog[t][i].r.status) \o " "
                                        \o reqLog[t][i].r.reason)
           /\ Len(sleeps[t]) = i - 1

C2_Witness ==
    \E t \in Tasks :
        /\ pc[t] = "done"
        /\ Len(reqLog[t]) = 2
        /\ TransportFailure(reqLog[t][1])
        /\ AnsweredError(reqLog[t][2])
        /\ ret[t].err = "500 Internal Server Error"

\* C3: once an attempt has received a 2xx response, whatever its body, no
\* further attempt is issued and no sleep is made.
C3_OnlyTransportFailuresRetried ==
    \A t \in Tasks : \A i \in 1..Len(reqLog[t]) :
        Answered2xx(reqLog[t][i])
        => /\ i = Len(reqLog[t])
           /\ pc[t] = "done"
           /\ Len(sleeps[t]) = i - 1

\* C4: no exception leaves _request; what it returns is a pair whose error
\* is None, or whose data is None and whose error is a non-empty message.
C4_NeverRaises ==
    \A t \in Tasks :
        (op[t] = "_request" /\ pc[t] = "done")
        => /\ ret[t].tag = "pair"
           /\ \/ ret[t].err = None
              \/ ret[t].data = PyNone /\ ret[t].err # ""

C4_Witness ==
    \E t \in Tasks :
        /\ op[t] = "_request" /\ pc[t] = "done"
        /\ Len(reqLog[t]) = MAX_RETRIES + 1
        /\ Answered2xx(reqLog[t][MAX_RETRIES + 1])
        /\ ret[t].err = "Expecting value"

\* C5: when every attempt fails at transport level there are MAX_RETRIES+1
\* attempts and MAX_RETRIES sleeps, the k-th sleep lasting
\* RETRY_BACKOFF_BASE * k, none after the last attempt, and the result is
\* (None, message of the last failure).
C5_ExhaustionLinearBackoff ==
    \A t \in Tasks :
        (Requesting(t) /\ \A i \in 1..Len(reqLog[t]) : TransportFailure(reqLog[t][i]))
        => /\ Len(reqLog[t]) <= MAX_RETRIES + 1
           /\ pc[t] # "blocked"
           /\ pc[t] = "sleep" => Len(sleeps[t]) = Len(reqLog[t])
           /\ \A k \in 1..Len(sleeps[t]) : sleeps[t][k] = RETRY_BACKOFF_BASE * k
           /\ pc[t] = "done" /\ Len(reqLog[t]) > 0
                => /\ Len(reqLog[t]) = MAX_RETRIES + 1
                   /\ Len(sleeps[t]) = MAX_RETRIES
                   /\ ret[t] = RetPair(PyNone, reqLog[t][MAX_RETRIES + 1].r.msg)

C5_Witness ==
    \E t \in Tasks :
        /\ op[t] = "_request" /\ pc[t] = "done"
        /\ Len(reqLog[t]) = MAX_RETRIES + 1
        /\ \A i \in 1..Len(reqLog[t]) : TransportFailure(reqLog[t][i])
        /\ reqLog[t][1].r.msg # reqLog[t][MAX_RETRIES + 1].r.msg
        /\ Len(sleeps[t]) = MAX_RETRIES

\* C6: every attempt is issued with the (connect, read) timeout bounds, so no
\* attempt waits without bound for a backend that never answers.
C6_AttemptsAreTimeBounded ==
    \A t \in Tasks :
        /\ \A i \in 1..Len(reqLog[t]) :
               reqLog[t][i].timeout = <<CONNECT_TIMEOUT, READ_TIMEOUT>>
        /\ pc[t] # "blocked"

\* C7: an explicit id absent from the registry gives the not-found error and
\* no operation request; no id with an empty registry gives the
\* no-servers-available error and no operation request; otherwise every
\* operation request goes to the URL of the resolved record.
C7_TargetResolution ==
    \A t \in Tasks :
        Requesting(t)
        => LET reg == entry[t].servers
               id == binary_id[t]
           IN /\ (id # None /\ id \notin DictKeys(reg))
                   => /\ pc[t] = "done"
                      /\ ret[t] = RetPair(PyNone, "Binary server '" \o id \o "' not found")
                      /\ reqLog[t] = <<>>
              /\ (id = None /\ reg = <<>>)
                   => /\ pc[t] = "done"
                      /\ ret[t] = RetPair(PyNone, "No Binary Ninja servers available")
                      /\ reqLog[t] = <<>>
              /\ (id # None /\ id \in DictKeys(reg))
                   => \A i \in 1..Len(reqLog[t]) : \E j \in 1..Len(reg) :
                          /\ reg[j].id = id
                          /\ reqLog[t][i].url = reg[j].url \o "/" \o Endpoint(method[t])
              /\ (id = None /\ reg # <<>>)
                   => \A i \in 1..Len(reqLog[t]) :
                          reqLog[t][i].url = reg[1].url \o "/" \o Endpoint(method[t])
              /\ (id \in DictKeys(reg) \/ (id = None /\ reg # <<>>))
                   => (pc[t] = "done" => reqLog[t] # <<>>)

C7_Witness ==
    \E t \in Tasks :
        /\ op[t] = "_request" /\ pc[t] = "done"
        /\ binary_id[t] # None
        /\ binary_id[t] \notin DictKeys(entry[t].servers)
        /\ entry[t].servers # <<>>
        /\ reqLog[t] = <<>>

\* the call of task t ran a sweep, and the sweep is complete
SweepDone(t) == entry[t].swept /\ pc[t] \in {"read", "done"}

\* C8: an instance that is in the snapshot of one sweep and whose status
\* probe fails in the next sweep is, after that sweep, absent from
\* get_servers() and not found by get_server_by_id.
C8_DiscoveryLiveness ==
    \A t \in Tasks :
        SweepDone(t)
        => \A i \in 1..Len(probeLog[t]) :
             LET id == BinaryId(probeLog[t][i].port)
             IN (id \in DictKeys(entry[t].servers) /\ probeLog[t][i].saw = "failed")
                => /\ id \notin DictKeys(servers)
                   /\ DictGet(servers, id) = <<>>
                   /\ (pc[t] = "done" /\ op[t] = "get_servers")
                        => id \notin DictKeys(ret[t].mapping)
                   /\ (pc[t] = "done" /\ op[t] = "get_server_by_id" /\ binary_id[t] = id)
                        => ret[t] = RetInfo(<<>>)

C8_Witness ==
    \E t \in Tasks :
        /\ SweepDone(t) /\ pc[t] = "done" /\ op[t] = "get_server_by_id"
        /\ binary_id[t] \in DictKeys(entry[t].servers)
        /\ \E i \in 1..Len(probeLog[t]) :
               /\ BinaryId(probeLog[t][i].port) = binary_id[t]
               /\ probeLog[t][i].saw = "failed"
        /\ servers # <<>>
        /\ ret[t] = RetInfo(<<>>)

\* C9: after a completed sweep the mapping holds a record for a port of the
\* range exactly when the probe of that port in that sweep returned the
\* success status and a body whose loaded flag is true.
C9_SweepMembership ==
    \A t \in Tasks :
        SweepDone(t)
        => /\ Len(probeLog[t]) = MAX_SERVERS
           /\ \A p \in Ports :
                (\E j \in 1..Len(servers) : servers[j].port = p)
                <=> (\E i \in 1..Len(probeLog[t]) :
                        probeLog[t][i].port = p /\ probeLog[t][i].saw = "loaded")
           /\ \A j \in 1..Len(servers) : servers[j].port \in Ports

C9_Witness ==
    \E t \in Tasks :
        /\ SweepDone(t) /\ pc[t] = "done"
        /\ \E i \in 1..Len(probeLog[t]) : probeLog[t][i].saw = "not_loaded"
        /\ \E i \in 1..Len(probeLog[t]) : probeLog[t][i].saw = "loaded"
        /\ Len(servers) = 1

\* C25: whatever the probes answer, the sweep goes through every port of
\* the range and discover_servers returns None, no registry method raises;
\* a port whose probe fails is left out, and every other port is in the
\* mapping exactly when its own probe found a loaded binary.
C25_ProbeFailuresAreNotErrors ==
    \A t \in Tasks :
        /\ pc[t] \in {"probe", "commit"}
             => Len(probeLog[t]) = port_offset[t] /\ ret[t] = NoRet
        /\ pc[t] = "commit" => port_offset[t] = MAX_SERVERS
        /\ (pc[t] = "done" /\ op[t] = "discover_servers") => ret[t] = RetNone
        /\ (pc[t] = "done" /\ op[t] \in RegistryOps) => ret[t].tag # "raise"
        /\ SweepDone(t)
             => \A i \in 1..Len(probeLog[t]) :
                  /\ probeLog[t][i].saw = "failed"
                       => BinaryId(probeLog[t][i].port) \notin DictKeys(servers)
                  /\ \A j \in 1..Len(probeLog[t]) :
                        (j # i /\ probeLog[t][j].saw = "failed")
                        => (BinaryId(probeLog[t][i].port) \in DictKeys(servers)
                            <=> probeLog[t][i].saw = "loaded")

\* the probe of the first port failed, the second port is in the mapping
C25_Witness ==
    \E t \in Tasks :
        /\ SweepDone(t) /\ pc[t] = "done" /\ op[t] = "discover_servers"
        /\ ret[t] = RetNone
        /\ probeLog[t][1].saw = "failed"
        /\ probeLog[t][2].saw = "loaded"
        /\ DictKeys(servers) = {BinaryId(probeLog[t][2].port)}

\* the records of a mapping, as a set
Live(d) == {d[i] : i \in 1..Len(d)}
\* the record of the lowest port in a set of records
LowestPort(S) == CHOOSE r \in S : \A q \in S : r.port <= q.port

\* C23: get_default_server returns None exactly when the mapping is empty,
\* and otherwise the record of the lowest port among the records of the
\* mapping: a function of the set of records, whatever the order of the
\* dict; the dict of every sweep is in the order of the ports.
C23_DeterministicDefault ==
    /\ \A i, j \in 1..Len(servers) : i < j => servers[i].port < servers[j].port
    /\ \A t \in Tasks :
         (pc[t] = "done" /\ op[t] = "get_default_server")
         => /\ ret[t].tag = "info"
            /\ ret[t].mapping = <<>> <=> Live(servers) = {}
            /\ Live(servers) # {} => ret[t].mapping = <<LowestPort(Live(servers))>>

\* the default of a mapping of two servers
C23_Witness ==
    \E t \in Tasks :
        /\ pc[t] = "done" /\ op[t] = "get_default_server"
        /\ Len(servers) = 2
        /\ ret[t].mapping # <<>>
        /\ ret[t].mapping[1].port = BINJA_BASE_PORT

\* the records of d are those of ports of the range, under the id and with
\* the URL of the port, one for a port
RecordsOfPorts(d) ==
    /\ \A i \in 1..Len(d) :
          \E p \in Ports : /\ d[i].id = BinaryId(p)
                          /\ d[i].port = p
                          /\ d[i].url = Url(p)
    /\ \A i \in 1..Len(d) : \A j \in 1..Len(d) : d[i].port = d[j].port => i = j

\* C31: the mapping of the registry, the mapping that a sweep collects and
\* every mapping or record that a registry method returns hold for a port p
\* of [BINJA_BASE_PORT, BINJA_BASE_PORT + MAX_SERVERS) the key port_<p>, the
\* port p and the URL of p, and no port twice: a port has the same id in
\* every sweep.
C31_RecordsOfPorts ==
    /\ RecordsOfPorts(servers)
    /\ \A t \in DOMAIN pc :
          /\ RecordsOfPorts(discovered[t])
          /\ ret[t].tag \in {"mapping", "info"} => RecordsOfPorts(ret[t].mapping)

\* a second sweep has installed the records of two ports
C31_Witness ==
    /\ last_discovery > discovery_interval
    /\ Len(servers) >= 2
    /\ \E i \in 1..Len(servers) : servers[i].last_seen = last_discovery

RegistryCallDone(t) == op[t] \in RegistryOps /\ pc[t] = "done"
NoSweep(t) ==
    /\ probeLog[t] = <<>>
    /\ servers = entry[t].servers
    /\ last_discovery = entry[t].last_discovery
OneFullSweep(t) ==
    /\ Len(probeLog[t]) = MAX_SERVERS
    /\ \A i \in 1..Len(probeLog[t]) : probeLog[t][i].port = BINJA_BASE_PORT + i - 1

\* C10 as stated: a registry call made less than discovery_interval after
\* the last completed sweep issues no probe and leaves the mapping and the
\* timestamp unchanged; a call made at or after the interval performs
\* exactly one full sweep.
C10_ThrottleSinceCompletion ==
    \A t \in Tasks :
        (RegistryCallDone(t) /\ entry[t].last_discovery > 0)
        => IF now[t] - entry[t].completedAt < discovery_interval
           THEN NoSweep(t)
           ELSE OneFullSweep(t)

\* C10 amended: the interval is counted from the last-sweep timestamp, which
\* is the time at which the last completed sweep started.
C10_ThrottleSinceStart ==
    \A t \in Tasks :
        RegistryCallDone(t)
        => IF now[t] - entry[t].last_discovery < discovery_interval
           THEN NoSweep(t)
           ELSE OneFullSweep(t)

C10_Witness ==
    \E t \in Tasks :
        /\ RegistryCallDone(t)
        /\ entry[t].last_discovery > 0
        /\ entry[t].completedAt > entry[t].last_discovery
        /\ now[t] - entry[t].last_discovery < discovery_interval
        /\ servers # <<>>
        /\ NoSweep(t)

\* ------------------------------------------------------------------------
\* Properties of the cache
\* ------------------------------------------------------------------------
GetDone(t) == cpc[t] = "done" /\ cop[t].fn = "get"
SetDone(t) == cpc[t] = "done" /\ cop[t].fn = "set"
\* the age of entry e when the get of t read the clock
AgeAt(t, e) == chist[t].at - e.t

\* C12: a set(k, v) stores v under k; a get(k) made before the TTL has
\* elapsed since the latest set on k returns that v, with the entry left in
\* place; a get(k) made after the TTL has elapsed returns a miss and leaves
\* no entry for k in the store.  (The age of exactly TTL is C28.)
C12_CacheRoundTrip ==
    \A t \in DOMAIN cpc :
        LET key == Key(cop[t].name, cop[t].params)
        IN /\ SetDone(t)
                => /\ key \in DOMAIN store
                   /\ store[key].val = cop[t].value[1]
                   /\ store[key].t <= mono
                   /\ lastSet[key].e = store[key]
           /\ GetDone(t)
                => IF key \notin DOMAIN lastSet
                   THEN cret[t] = Miss /\ key \notin DOMAIN store
                   ELSE LET e == lastSet[key].e
                        IN /\ AgeAt(t, e) < CACHE_TTL
                                => cret[t] = Hit(e.val) /\ StoreGet(store, key) = <<e>>
                           /\ AgeAt(t, e) > CACHE_TTL
                                => cret[t] = Miss /\ key \notin DOMAIN store

\* a get is served before the TTL has elapsed, and the entry of another key
\* is gone after a get that came too late
C12_Witness ==
    \E t \in DOMAIN cpc :
        LET key == Key(cop[t].name, cop[t].params)
        IN /\ GetDone(t)
           /\ key \in DOMAIN lastSet
           /\ AgeAt(t, lastSet[key].e) \in 1..(CACHE_TTL - 1)
           /\ cret[t] = Hit(lastSet[key].e.val)
           /\ \E other \in DOMAIN lastSet \ {key} : other \notin DOMAIN store

\* the same key/value pairs, in whatever order
SameMapping(p, q) == {p[i] : i \in 1..Len(p)} = {q[i] : i \in 1..Len(q)}

\* names and parameter mappings of up to MaxParams pairs
MaxParams == 2
KeyNames == {"methods_default", "data_default"}
KeyPairs == {<<n, v>> : n \in {"limit", "offset", "size"}, v \in {1, 2}}
KeyParams ==
    UNION { {p \in [1..n -> KeyPairs] : \A i, j \in 1..n : i # j => p[i][1] # p[j][1]}
            : n \in 0..MaxParams }

\* equal keys exactly for equal names and equal sets of pairs
KeyIdentity ==
    \A n1 \in KeyNames, n2 \in KeyNames : \A p1 \in KeyParams, p2 \in KeyParams :
        (Key(n1, p1) = Key(n2, p2)) <=> (n1 = n2 /\ SameMapping(p1, p2))

\* C13: the cache key is the same for the same name and the same pairs in
\* any insertion order, and differs when the name, a parameter name or a
\* parameter value differs: a get is a hit on what was set under the same
\* name and pairs in any order, and on nothing else.
C13_KeyIdentity ==
    /\ KeyIdentity
    /\ \A t \in DOMAIN cpc :
         GetDone(t)
         => /\ \A key \in DOMAIN lastSet :
                  ( /\ key[1] = cop[t].name
                    /\ SameMapping(lastSet[key].params, cop[t].params)
                    /\ AgeAt(t, lastSet[key].e) < CACHE_TTL )
                  => cret[t] = Hit(lastSet[key].e.val)
            /\ cret[t].tag = "value"
                 => \E key \in DOMAIN lastSet :
                        /\ key[1] = cop[t].name
                        /\ SameMapping(lastSet[key].params, cop[t].params)
                        /\ cret[t] = Hit(lastSet[key].e.val)

\* a hit on an entry that was set with the parameters in another order
C13_Witness ==
    \E t \in DOMAIN cpc :
        /\ GetDone(t)
        /\ cret[t].tag = "value"
        /\ \E key \in DOMAIN lastSet :
               /\ key = Key(cop[t].name, cop[t].params)
               /\ lastSet[key].params # cop[t].params
               /\ \E other \in DOMAIN store : other # key

\* C15: in every interleaving of get and set on one key, the entry that a
\* get removes from the store is expired at the time of the removal; a get
\* that has read an expired entry does not remove the entry that a
\* concurrent set has written since.
C15_GetEvictsOnlyExpired ==
    \A t \in DOMAIN cpc :
        chist[t].popped # <<>>
        => /\ Expired(chist[t].poppedAt, chist[t].popped[1].t)
           /\ chist[t].popped = item[t]

\* C28: a get that finds an entry returns its value exactly when the clock
\* that it reads is at most CACHE_TTL after the timestamp of the entry: at
\* the age of exactly CACHE_TTL it is a hit, at any greater age a miss; the
\* entry is the one of the latest set on the key, so no value that get
\* returns was stored more than CACHE_TTL before the read.
C28_ValidityBoundary ==
    \A t \in DOMAIN cpc :
        GetDone(t)
        => LET key == Key(cop[t].name, cop[t].params)
           IN /\ item[t] = <<>> => cret[t] = Miss
              /\ item[t] # <<>>
                   => /\ key \in DOMAIN lastSet /\ item[t] = <<lastSet[key].e>>
                      /\ AgeAt(t, item[t][1]) <= CACHE_TTL => cret[t] = Hit(item[t][1].val)
                      /\ AgeAt(t, item[t][1]) > CACHE_TTL => cret[t] = Miss
              /\ cret[t].tag = "value"
                   => /\ item[t] # <<>>
                      /\ chist[t].at - lastSet[key].e.t <= CACHE_TTL

\* a hit at the age of exactly CACHE_TTL
C28_Witness ==
    \E t \in DOMAIN cpc :
        /\ GetDone(t)
        /\ item[t] # <<>>
        /\ AgeAt(t, item[t][1]) = CACHE_TTL
        /\ cret[t] = Hit(item[t][1].val)

\* C29: a set on a key, with or without an entry, expired or not, leaves
\* under the key exactly the given value with the clock of the set; a get
\* that follows returns that value and no older one, as long as the clock is
\* at most CACHE_TTL after the latest set.
C29_SetOverwrites ==
    \A t \in DOMAIN cpc :
        LET key == Key(cop[t].name, cop[t].params)
        IN /\ SetDone(t)
                => /\ StoreGet(store, key) = <<[t |-> chist[t].at, val |-> cop[t].value[1]]>>
                   /\ chist[t].at <= mono
           /\ (GetDone(t) /\ key \in DOMAIN lastSet)
                => LET e == lastSet[key].e
                   IN /\ cret[t].tag = "value" => cret[t] = Hit(e.val)
                      /\ AgeAt(t, e) <= CACHE_TTL => cret[t] = Hit(e.val)

\* a set has replaced an expired entry that held another value
C29_Witness ==
    \E t \in DOMAIN cpc :
        /\ SetDone(t)
        /\ chist[t].replaced # <<>>
        /\ chist[t].replaced[1].val # cop[t].value[1]
        /\ Expired(chist[t].at, chist[t].replaced[1].t)
        /\ store[ckey[t]].val = cop[t].value[1]

\* the keys whose entry a step changes
Touched == {k \in DOMAIN store \cup DOMAIN store' : StoreGet(store, k) # StoreGet(store', k)}

\* C30: a step of get or set changes at most the entry of its own key; a
\* step that makes the store smaller is line 177 of a get that has found
\* the entry of its key expired; the passing of time removes nothing, so
\* an expired entry stays until its key is read or set.
C30_LazyExpiryFrame ==
    [][/\ \A k \in Touched :
             \E t \in DOMAIN cpc :
                 /\ cpc[t] \in {"pop", "store"} /\ cpc'[t] = "done"
                 /\ k = Key(cop[t].name, cop[t].params)
       /\ DOMAIN store' # DOMAIN store /\ DOMAIN store' \subseteq DOMAIN store
             => \E t \in DOMAIN cpc :
                    /\ cpc[t] = "pop" /\ cop[t].fn = "get"
                    /\ DOMAIN store \ DOMAIN store' = {Key(cop[t].name, cop[t].params)}
                    /\ Expired(chist[t].at, item[t][1].t)
       /\ mono' # mono => store' = store]_vars

\* an expired entry is in the store while a get on another key has returned
C30_Witness ==
    \E t \in DOMAIN cpc :
        /\ GetDone(t)
        /\ \E other \in DOMAIN store :
               /\ other # Key(cop[t].name, cop[t].params)
               /\ Expired(mono, store[other].t)
               /\ Expired(chist[t].at, store[other].t)

\* ------------------------------------------------------------------------
\* Python values of the payloads, as far as _list_endpoint and the tools
\* look into them.  items and hasMore are the fields of a dict of that
\* name (<<>> when the dict has no such key), keys counts its other keys,
\* filled says that list_data has set its default fields.
\* ------------------------------------------------------------------------
J(type, n, s, elems, items, hasMore, keys) ==
    [type |-> type, n |-> n, s |-> s, elems |-> elems, items |-> items,
     hasMore |-> hasMore, keys |-> keys, filled |-> FALSE]
JNull == J("None", 0, "", <<>>, <<>>, <<>>, 0)
JBool(b) == J("bool", IF b THEN 1 ELSE 0, "", <<>>, <<>>, <<>>, 0)
JInt(i) == J("int", i, "", <<>>, <<>>, <<>>, 0)
JStr(x) == J("str", 0, x, <<>>, <<>>, <<>>, 0)
JList(elems) == J("list", 0, "", elems, <<>>, <<>>, 0)
JDict(items, hasMore, keys) == J("dict", 0, "", <<>>, items, hasMore, keys)

\* bool(x)
Truth(x) ==
    CASE x.type = "None" -> FALSE
      [] x.type \in {"bool", "int"} -> x.n # 0
      [] x.type = "str" -> x.s # ""
      [] x.type = "list" -> x.elems # <<>>
      [] OTHER -> x.items # <<>> \/ x.hasMore # <<>> \/ x.keys > 0

\* the content of a JSON array and of a split text, which the model of the
\* HTTP bodies leaves open
ArrayElems == <<JInt(1), JInt(2), JInt(3)>>
LineElems == <<JStr("line 1"), JStr("line 2")>>

\* the Python value that _request returned as data
Payload(val) ==
    CASE val.type = "dict" ->
           JDict(<<>>, <<>>, (IF val.loaded = Absent THEN 0 ELSE 1)
                             + (IF val.filename = Absent THEN 0 ELSE 1))
      [] val.type = "list" ->
           JList(CASE val.src = "json" -> ArrayElems
                   [] val.src = "lines" -> LineElems
                   [] OTHER -> <<>>)
      [] OTHER -> JNull

\* ------------------------------------------------------------------------
\* _clamp_paging (lines 154-157) and the envelope of _list_endpoint (lines
\* 205-222); the same code in bn_mcp_bridge_http.py (72-75, 120-136)
\* ------------------------------------------------------------------------
DEFAULT_LIMIT == 100
MAX_LIMIT == 1000

Max(a, b) == IF a >= b THEN a ELSE b
Min(a, b) == IF a <= b THEN a ELSE b
\* x or d, for an int | None argument: <<>> is None
OrDefault(x, d) == IF x = <<>> \/ x[1] = 0 THEN d ELSE x[1]

\* line 155
ClampOffset(offset) == Max(0, OrDefault(offset, 0))
\* a clamp that takes the default for None only
ClampLimitNoneOnly(limit) ==
    Min(MAX_LIMIT, Max(1, IF limit = <<>> THEN DEFAULT_LIMIT ELSE limit[1]))
\* line 156
ClampLimit(limit) == Min(MAX_LIMIT, Max(1, OrDefault(limit, DEFAULT_LIMIT)))
\* lines 154-157
ClampPaging(offset, limit) == [o |-> ClampOffset(offset), l |-> ClampLimit(limit)]

\* the result of a list tool: error is <<>> when the dict has no such key
Envelope(ok, error, items, hasMore) ==
    [ok |-> ok, error |-> error, items |-> items, hasMore |-> hasMore]

\* lines 205, 326, 474, ...: if err
ErrSet(err) == err # None /\ err # ""
\* line 206
ErrorEnvelope(err) == Envelope(FALSE, <<err>>, JList(<<>>), FALSE)

\* a page counts as full only beyond the limit
HasMoreBeyond(n, limit) == n > limit
\* line 217: has_more = len(items) >= limit
HasMoreHeuristic(n, limit) == n >= limit

\* lines 211-220: items
ItemsOf(data) ==
    CASE data.type = "dict" /\ data.items # <<>> -> data.items[1]
      [] data.type = "list" -> data
      [] OTHER -> JList(<<data>>)
\* lines 211-220: has_more
HasMoreOf(data, limit) ==
    CASE data.type = "dict" /\ data.items # <<>> ->
           IF data.hasMore = <<>> THEN FALSE ELSE Truth(data.hasMore[1])
      [] data.type = "list" -> HasMoreHeuristic(Len(data.elems), limit)
      [] OTHER -> FALSE

\* lines 205-222: resp
ListResponse(data, err, limit) ==
    IF ErrSet(err)
    THEN ErrorEnvelope(err)
    ELSE Envelope(TRUE, <<>>, ItemsOf(data), HasMoreOf(data, limit))

\* Inputs.  A list payload has up to MaxItems elements.
MaxItems == 3
Offsets == {<<>>} \cup {<<n>> : n \in -2..2}
Limits ==
    {<<>>} \cup {<<n>> : n \in (-1..(MaxItems + 1))
                         \cup {DEFAULT_LIMIT, MAX_LIMIT - 1, MAX_LIMIT, MAX_LIMIT + 1}}
Lists == {JList([i \in 1..n |-> JInt(i)]) : n \in 0..MaxItems}
Scalars == {JNull, JBool(TRUE), JBool(FALSE), JInt(0), JInt(7), JStr(""), JStr("x")}
ItemsValues == Lists \cup {JNull, JInt(7), JStr("x")}
HasMoreValues ==
    {<<>>, <<JBool(TRUE)>>, <<JBool(FALSE)>>, <<JNull>>, <<JInt(1)>>, <<JStr("no")>>}
Payloads ==
    Scalars \cup Lists
    \cup {JDict(<<>>, <<>>, 0), JDict(<<>>, <<>>, 2), JDict(<<>>, <<JBool(TRUE)>>, 0)}
    \cup {JDict(<<i>>, h, 0) : i \in ItemsValues, h \in HasMoreValues}
RequestErrors == {"500 Internal Server Error", "Connection refused"}

NoInput == [offset |-> <<>>, limit |-> <<>>, data |-> JNull, err |-> None]

InitNormIdle ==
    /\ input = NoInput
    /\ paging = <<>>
    /\ envelope = <<>>

\* a call with any offset and limit, for which _request returns any payload
\* or any error
InitNorm ==
    /\ \E o \in Offsets, l \in Limits :
         \/ \E d \in Payloads : input = [offset |-> o, limit |-> l, data |-> d, err |-> None]
         \/ \E e \in RequestErrors : input = [offset |-> o, limit |-> l, data |-> JNull, err |-> e]
    /\ paging = <<>>
    /\ envelope = <<>>

\* o, l = _clamp_paging(offset, limit)
ApplyClampPaging ==
    /\ paging = <<>>
    /\ paging' = <<ClampPaging(input.offset, input.limit)>>
    /\ UNCHANGED <<input, envelope, requestVars, cacheVars, toolVars, hostVars>>

\* lines 205-222, with limit=l
ApplyListResponse ==
    /\ paging # <<>> /\ envelope = <<>>
    /\ envelope' = <<ListResponse(input.data, input.err, paging[1].l)>>
    /\ UNCHANGED <<input, paging, requestVars, cacheVars, toolVars, hostVars>>

\* C16: for a successful payload P and the limit of the call: a mapping
\* with an items field gives items = P.items and hasMore = P.hasMore, false
\* when absent; a sequence gives items = P and hasMore exactly when
\* len(P) >= limit; anything else gives items = [P] and hasMore = false; ok
\* is true in the three cases.
C16_EnvelopeInference ==
    (envelope # <<>> /\ input.err = None)
    => LET P == input.data
           limit == paging[1].l
           e == envelope[1]
       IN /\ e.ok = TRUE
          /\ e.error = <<>>
          /\ CASE P.type = "dict" /\ P.items # <<>> ->
                    /\ e.items = P.items[1]
                    /\ P.hasMore = <<>> => e.hasMore = FALSE
                    /\ P.hasMore # <<>> => e.hasMore = Truth(P.hasMore[1])
                    /\ \A b \in BOOLEAN : P.hasMore = <<JBool(b)>> => e.hasMore = b
               [] P.type = "list" ->
                    /\ e.items = P
                    /\ e.hasMore <=> (Len(P.elems) >= limit)
               [] OTHER ->
                    /\ e.items = JList(<<P>>)
                    /\ e.hasMore = FALSE

\* a list that fills the page exactly
C16_Witness ==
    /\ envelope # <<>> /\ input.err = None
    /\ input.data.type = "list"
    /\ Len(input.data.elems) = MaxItems
    /\ paging[1].l = MaxItems
    /\ envelope[1].hasMore = TRUE

\* C17: for every payload and every error the envelope has a boolean ok,
\* an items field that is a sequence, and a boolean hasMore.
C17_EnvelopeShape ==
    envelope # <<>>
    => /\ envelope[1].ok \in BOOLEAN
       /\ envelope[1].items.type = "list"
       /\ envelope[1].hasMore \in BOOLEAN

\* C18: the clamped offset is max(0, offset), 0 when absent; the clamped
\* limit lies in 1..MAX_LIMIT, is the limit when that lies in 1..MAX_LIMIT,
\* MAX_LIMIT when it is greater, 1 when it is negative, and DEFAULT_LIMIT
\* when it is 0 or absent.
C18_PaginationClamp ==
    paging # <<>>
    => LET o == paging[1].o
           l == paging[1].l
           offset == input.offset
           limit == input.limit
       IN /\ offset = <<>> => o = 0
          /\ offset # <<>> => o = (IF offset[1] > 0 THEN offset[1] ELSE 0)
          /\ l \in 1..MAX_LIMIT
          /\ limit = <<>> => l = DEFAULT_LIMIT
          /\ limit # <<>>
               => /\ limit[1] \in 1..MAX_LIMIT => l = limit[1]
                  /\ limit[1] > MAX_LIMIT => l = MAX_LIMIT
                  /\ limit[1] < 0 => l = 1
                  /\ limit[1] = 0 => l = DEFAULT_LIMIT

\* a call with a negative offset and the limit 0
C18_Witness ==
    /\ paging # <<>>
    /\ input.offset # <<>> /\ input.offset[1] < 0
    /\ input.limit = <<0>>
    /\ paging[1] = [o |-> 0, l |-> DEFAULT_LIMIT]

\* ------------------------------------------------------------------------
\* The tools (lines 311-629) and _list_endpoint (lines 187-224)
\* ------------------------------------------------------------------------
\* the arguments of a tool call, with the defaults of the signatures; the
\* format of read_memory is passed through and left out
NoArgs ==
    [tool |-> "none", kind |-> "", offset |-> 0, limit |-> DEFAULT_LIMIT,
     query |-> "", filter_type |-> "", name |-> "", address |-> "",
     pattern |-> "", size |-> 0, binary_id |-> "", filename |-> ""]
NoCall == NoArgs

ListTools == {"list_entities", "list_data"}
DirectTools ==
    {"health", "get_data_item", "read_memory", "search_data_references",
     "decompile_function", "overview", "get_binary_status"}

\* what a tool returns: list says that the dict has the keys items and
\* hasMore; error is <<>> when the dict has no such key; data is the payload
\* that the dict carries, <<>> when it carries none
Result(ok, error, list, items, hasMore, data) ==
    [ok |-> ok, error |-> error, list |-> list, items |-> items,
     hasMore |-> hasMore, data |-> data]
\* {"ok": False, "error": msg}
Failure(msg) == Result(FALSE, <<msg>>, FALSE, JList(<<>>), FALSE, <<>>)
\* {"ok": False, "error": msg, "items": [], "hasMore": False}
ListFailure(msg) == Result(FALSE, <<msg>>, TRUE, JList(<<>>), FALSE, <<>>)
\* the envelope of _list_endpoint as the result of the tool
ListResult(e) == Result(e.ok, e.error, TRUE, e.items, e.hasMore, <<>>)

\* line 369
ValidKinds == {"methods", "classes", "segments", "imports", "exports", "data", "namespaces"}
\* a list_entities that takes any kind
AnyKind(kind) == TRUE
\* line 370
ValidKind(kind) == kind \in ValidKinds
\* str.strip() on the names of the calls
StripStr(x) == IF x = " " THEN "" ELSE x
\* binary_id or None
OrNone(id) == IF id = "" THEN None ELSE id
\* binary_id or "default"
OrDefaultId(id) == IF id = None \/ id = "" THEN "default" ELSE id

\* the checks that a tool makes before it calls anything: the result that
\* it returns, <<>> when the arguments pass
Rejection(c) ==
    CASE c.tool = "list_entities" /\ ~ValidKind(c.kind) ->
           <<ListFailure("Invalid kind. Must be one of: methods, classes, segments, imports, exports, data, namespaces")>>
      [] c.tool = "get_binary_info" /\ c.binary_id = "" ->
           <<Failure("binary_id is required")>>
      [] c.tool = "get_data_item" /\ c.name = "" /\ c.address = "" ->
           <<Failure("Either name or address must be provided")>>
      [] c.tool = "read_memory" /\ c.address = "" ->
           <<Failure("Address is required")>>
      [] c.tool = "read_memory" /\ (c.size <= 0 \/ c.size > 4096) ->
           <<Failure("Size must be between 1 and 4096 bytes")>>
      [] c.tool = "search_data_references" /\ c.address = "" /\ c.pattern = "" ->
           <<Failure("Either address or pattern must be provided")>>
      [] c.tool = "decompile_function" /\ (c.name = "" \/ StripStr(c.name) = "") ->
           <<Failure("Function name cannot be empty")>>
      [] OTHER -> <<>>

\* lines 378-390, 414-423: the arguments of _list_endpoint
ListEndpoint(c) ==
    IF c.tool = "list_data" THEN "data"
    ELSE IF c.query # "" /\ c.kind = "methods" THEN "searchFunctions" ELSE c.kind
ListExtra(c) ==
    (IF c.query # "" THEN <<<<"query", c.query>>>> ELSE <<>>)
    \o (IF c.tool = "list_data" /\ c.filter_type # ""
        THEN <<<<"type", c.filter_type>>>> ELSE <<>>)
ListPaging(c) == ClampPaging(<<c.offset>>, <<c.limit>>)
\* line 196
ListParams(c) ==
    <<<<"offset", ListPaging(c).o>>, <<"limit", ListPaging(c).l>>>> \o ListExtra(c)
\* line 199
CacheKey(ep, id) == ep \o "_" \o OrDefaultId(id)
ListCacheKey(c) == CacheKey(ListEndpoint(c), OrNone(c.binary_id))

\* the method and the endpoint of the _request of the other tools
ToolMethod(c) == IF c.tool = "decompile_function" THEN "POST" ELSE "GET"
ToolEndpoint(c) ==
    CASE c.tool = "health" -> "status"
      [] c.tool = "get_binary_info" -> "binary/info"
      [] c.tool = "get_data_item" -> "data/item"
      [] c.tool = "read_memory" -> "memory"
      [] c.tool = "search_data_references" -> "data/references"
      [] c.tool = "decompile_function" -> "decompile"
      [] c.tool = "overview" -> "overview"
      [] OTHER -> "binary"

\* a health that reports ok whatever _request returned
HealthOkAlways(err) == TRUE
\* line 349: err is None
HealthOk(err) == err = None

\* a _list_endpoint that does not look at what the cache returned
NeverCached(c) == FALSE
\* line 201: cached is not None
IsCached(c) == c.tag = "value"

\* what a tool other than the list tools makes of the return of _request;
\* an exception goes to the except clause of the tool
DirectResult(c, r) ==
    CASE r.tag = "raise" -> Failure(r.err)
      [] c.tool = "health" ->
           Result(HealthOk(r.err), <<r.err>>, FALSE, JList(<<>>), FALSE,
                  <<IF r.data.type = "dict" THEN Payload(r.data) ELSE JNull>>)
      [] ErrSet(r.err) ->
           Failure(IF c.tool = "get_binary_info"
                   THEN "Failed to get binary info: " \o r.err ELSE r.err)
      [] OTHER ->
           Result(TRUE, <<>>, FALSE, JList(<<>>), FALSE, <<Payload(r.data)>>)

\* lines 432-435: the default fields of the items that are dicts
FillDefaults(items) ==
    IF items.type = "list"
    THEN [items EXCEPT !.elems =
            [i \in DOMAIN items.elems |->
               IF items.elems[i].type = "dict"
               THEN [items.elems[i] EXCEPT !.filled = TRUE]
               ELSE items.elems[i]]]
    ELSE items
\* line 426
Enhances(c, e) == c.tool = "list_data" /\ e.ok /\ Truth(e.items)
\* line 428 raises for items that cannot be iterated
Iterable(x) == x.type \in {"list", "str", "dict"}
\* lines 426-435: the envelope after the loop, which works on the dict that
\* _list_endpoint returned
Enhanced(c, e) ==
    IF Enhances(c, e) /\ Iterable(e.items)
    THEN [e EXCEPT !.items = FillDefaults(e.items)]
    ELSE e
\* lines 390, 423-440: what a list tool returns
ListToolResult(c, e) ==
    IF Enhances(c, e) /\ ~Iterable(e.items)
    THEN ListFailure("object is not iterable")
    ELSE ListResult(Enhanced(c, e))
\* the store after list_data has worked on the dict that the entry of the
\* key holds
Aliased(s, key, e, enhanced) ==
    IF key \in DOMAIN s /\ s[key].val = e
    THEN [s EXCEPT ![key].val = enhanced]
    ELSE s
AliasedSets(s, key, e, enhanced) ==
    IF key \in DOMAIN s /\ s[key].e.val = e
    THEN [s EXCEPT ![key].e.val = enhanced]
    ELSE s

\* history of a tool invocation: get says that it consulted the cache, prev
\* is what the latest set on its key had stored when it was called, found
\* is the entry that get read and at the clock that get read, requested says
\* that it called _request, err is the error that _request reported (raised:
\* _request raised), resolved says that _request found its target, reqs is
\* the number of operation requests that were sent
NoTHist ==
    [get |-> FALSE, prev |-> <<>>, found |-> <<>>, at |-> 0, requested |-> FALSE, err |-> None,
     raised |-> FALSE, resolved |-> FALSE, reqs |-> 0, lookup |-> "none"]

InitToolsOf(T) ==
    /\ tpc = [t \in T |-> "idle"]
    /\ call = [t \in T |-> NoCall]
    /\ tret = [t \in T |-> <<>>]
    /\ thist = [t \in T |-> NoTHist]

\* the tool is called with the arguments c: its checks, then its first call
StartTool(t, c) ==
    /\ tpc[t] = "idle"
    /\ call' = [call EXCEPT ![t] = c]
    /\ CASE Rejection(c) # <<>> ->
              /\ tret' = [tret EXCEPT ![t] = Rejection(c)]
              /\ tpc' = [tpc EXCEPT ![t] = "done"]
              /\ UNCHANGED <<thist, requestVars, cacheVars>>
         [] Rejection(c) = <<>> /\ c.tool \in ListTools ->
              \* line 200
              /\ EnterGet(t, ListCacheKey(c), ListParams(c))
              /\ tpc' = [tpc EXCEPT ![t] = "get"]
              /\ thist' = [thist EXCEPT ![t].get = TRUE,
                                         ![t].prev = StoreGet(lastSet, Key(ListCacheKey(c), ListParams(c)))]
              /\ UNCHANGED <<tret, requestVars>>
         [] Rejection(c) = <<>> /\ c.tool = "get_binary_info" ->
              \* line 320
              /\ GetServerByIdEnter(t, c.binary_id)
              /\ tpc' = [tpc EXCEPT ![t] = "lookup"]
              /\ UNCHANGED <<tret, thist, cacheVars>>
         [] OTHER ->
              /\ RequestEnter(t, ToolMethod(c), ToolEndpoint(c), OrNone(c.binary_id))
              /\ tpc' = [tpc EXCEPT ![t] = "request"]
              /\ thist' = [thist EXCEPT ![t].requested = TRUE]
              /\ UNCHANGED <<tret, cacheVars>>
    /\ UNCHANGED idleVars

\* lines 200-204: ttl_cache.get has returned
AfterGet(t) ==
    /\ tpc[t] = "get" /\ cpc[t] = "done"
    /\ LET c == call[t]
           h == [thist[t] EXCEPT !.found = item[t], !.at = chist[t].at]
       IN IF IsCached(cret[t])
          THEN LET e == cret[t].val[1]
                   key == Key(ListCacheKey(c), ListParams(c))
               IN /\ tret' = [tret EXCEPT ![t] = <<ListToolResult(c, e)>>]
                  /\ tpc' = [tpc EXCEPT ![t] = "done"]
                  /\ thist' = [thist EXCEPT ![t] = h]
                  /\ DropCacheLocals(t)
                  /\ store' = Aliased(store, key, e, Enhanced(c, e))
                  /\ lastSet' = AliasedSets(lastSet, key, e, Enhanced(c, e))
                  /\ UNCHANGED <<mono, requestVars>>
          ELSE /\ RequestEnter(t, "GET", ListEndpoint(c), OrNone(c.binary_id))
               /\ tpc' = [tpc EXCEPT ![t] = "request"]
               /\ thist' = [thist EXCEPT ![t] = [h EXCEPT !.requested = TRUE]]
               /\ LeaveCache(t)
               /\ UNCHANGED tret
    /\ UNCHANGED <<call, idleVars>>

\* lines 320-322: get_server_by_id has returned
AfterLookup(t) ==
    /\ tpc[t] = "lookup" /\ pc[t] = "done"
    /\ IF ret[t].mapping = <<>>
       THEN /\ tret' = [tret EXCEPT ![t] =
                          <<Failure("Binary server '" \o call[t].binary_id \o "' not found")>>]
            /\ tpc' = [tpc EXCEPT ![t] = "done"]
            /\ thist' = [thist EXCEPT ![t].lookup = "missing"]
       ELSE /\ tpc' = [tpc EXCEPT ![t] = "found"]
            /\ thist' = [thist EXCEPT ![t].lookup = "found"]
            /\ UNCHANGED tret
    /\ PopFrame(t)
    /\ UNCHANGED <<call, cacheVars, idleVars>>

\* line 325
RequestAfterLookup(t) ==
    /\ tpc[t] = "found"
    /\ RequestEnter(t, "GET", ToolEndpoint(call[t]), call[t].binary_id)
    /\ tpc' = [tpc EXCEPT ![t] = "request"]
    /\ thist' = [thist EXCEPT ![t].requested = TRUE]
    /\ UNCHANGED <<call, tret, cacheVars, idleVars>>

\* _request has returned to the tool or to _list_endpoint (lines 205-223)
AfterRequest(t) ==
    /\ tpc[t] = "request" /\ pc[t] = "done"
    /\ LET c == call[t]
           r == ret[t]
       IN /\ thist' = [thist EXCEPT ![t].err = r.err,
                                    ![t].raised = (r.tag = "raise"),
                                    ![t].resolved = (base_url[t] # ""),
                                    ![t].reqs = Len(reqLog[t])]
          /\ IF c.tool \in ListTools
             THEN IF r.tag = "raise"
                  THEN /\ tret' = [tret EXCEPT ![t] = <<ListFailure(r.err)>>]
                       /\ tpc' = [tpc EXCEPT ![t] = "done"]
                       /\ UNCHANGED cacheVars
                  ELSE /\ EnterSet(t, ListCacheKey(c), ListParams(c),
                                   ListResponse(Payload(r.data), r.err, ListPaging(c).l))
                       /\ tpc' = [tpc EXCEPT ![t] = "set"]
                       /\ UNCHANGED tret
             ELSE /\ tret' = [tret EXCEPT ![t] = <<DirectResult(c, r)>>]
                  /\ tpc' = [tpc EXCEPT ![t] = "done"]
                  /\ UNCHANGED cacheVars
    /\ PopFrame(t)
    /\ UNCHANGED <<call, idleVars>>

\* lines 208, 224: ttl_cache.set has returned; _list_endpoint returns resp
AfterSet(t) ==
    /\ tpc[t] = "set" /\ cpc[t] = "done"
    /\ LET c == call[t]
           e == cop[t].value[1]
       IN /\ tret' = [tret EXCEPT ![t] = <<ListToolResult(c, e)>>]
          /\ store' = Aliased(store, ckey[t], e, Enhanced(c, e))
          /\ lastSet' = AliasedSets(lastSet, ckey[t], e, Enhanced(c, e))
    /\ tpc' = [tpc EXCEPT ![t] = "done"]
    /\ DropCacheLocals(t)
    /\ UNCHANGED <<mono, call, thist, requestVars, idleVars>>

\* the tool has returned
ToolReturn(t) ==
    /\ tpc[t] = "done"
    /\ tpc' = [tpc EXCEPT ![t] = "idle"]
    /\ call' = [call EXCEPT ![t] = NoCall]
    /\ tret' = [tret EXCEPT ![t] = <<>>]
    /\ thist' = [thist EXCEPT ![t] = NoTHist]
    /\ UNCHANGED <<requestVars, cacheVars, idleVars>>

\* list_entities with its defaults, for the default server
ListCalls == {[NoArgs EXCEPT !.tool = "list_entities", !.kind = "methods"]}

CallList(t) ==
    /\ tpc[t] = "idle"
    /\ \E c \in ListCalls : StartTool(t, c)

\* C14: a list call made after an identical call has stored and returned an
\* envelope, and whose get reads the clock not later than CACHE_TTL after
\* that, calls neither the registry nor _request, sends no HTTP request and
\* returns that envelope, an error envelope included; a call without such a
\* predecessor, or later than CACHE_TTL after it, calls _request, which
\* sends an operation request whenever the target resolves, and the
\* envelope it returns is the one that it has stored under the key.
C14_CacheSuppressesRequests ==
    \A t \in DOMAIN tpc :
      /\ tpc[t] = "get" => pc[t] = "idle" /\ reqLog[t] = <<>> /\ probeLog[t] = <<>>
      /\ (tpc[t] = "done" /\ thist[t].get)
         => LET h == thist[t]
                key == Key(ListCacheKey(call[t]), ListParams(call[t]))
            IN IF h.prev # <<>> /\ h.at - h.prev[1].e.t <= CACHE_TTL
               THEN /\ SameMapping(h.prev[1].params, ListParams(call[t]))
                    /\ ~h.requested /\ h.reqs = 0
                    /\ tret[t] = <<ListResult(h.prev[1].e.val)>>
               ELSE /\ h.requested
                    /\ h.resolved => h.reqs >= 1
                    /\ ~h.raised
                         => /\ key \in DOMAIN lastSet
                            /\ tret[t] = <<ListResult(lastSet[key].e.val)>>
                            /\ tret[t][1].ok <=> ~ErrSet(h.err)

\* an error envelope is returned from the cache, some time after it was stored
C14_Witness ==
    \E t \in DOMAIN tpc :
      /\ tpc[t] = "done" /\ thist[t].get
      /\ thist[t].prev # <<>>
      /\ thist[t].found = <<thist[t].prev[1].e>>
      /\ thist[t].at > thist[t].prev[1].e.t
      /\ ~thist[t].requested
      /\ tret[t] # <<>> /\ ~tret[t][1].ok

\* The calls of the tools: every tool with arguments that pass its checks,
\* for the default server, for the server of the base port and for an id
\* that no server has; the list tools with limits around 1 and MAX_LIMIT;
\* calls with arguments that the checks reject.
ToolIds == {"", BinaryId(BINJA_BASE_PORT), "port_1"}
ToolLimits == {-1, 0, 1, DEFAULT_LIMIT, MAX_LIMIT, MAX_LIMIT + 1}
ToolSizes == {-1, 0, 1, 4096, 4097}
ToolCalls ==
    {[NoArgs EXCEPT !.tool = "list_entities", !.kind = k, !.limit = l] :
        k \in {"methods", "bogus"}, l \in ToolLimits}
    \cup {[NoArgs EXCEPT !.tool = "list_entities", !.kind = k, !.query = q, !.binary_id = i] :
             k \in {"methods", "data"}, q \in {"", "main"}, i \in ToolIds}
    \cup {[NoArgs EXCEPT !.tool = "list_data", !.limit = l, !.offset = -1] : l \in ToolLimits}
    \cup {[NoArgs EXCEPT !.tool = "list_data", !.filter_type = "string", !.binary_id = i] :
             i \in ToolIds}
    \cup {[NoArgs EXCEPT !.tool = n, !.binary_id = i] :
             n \in {"health", "overview", "get_binary_status", "get_binary_info"},
             i \in ToolIds}
    \cup {[NoArgs EXCEPT !.tool = "get_data_item", !.name = n, !.binary_id = i] :
             n \in {"", "g_table"}, i \in ToolIds}
    \cup {[NoArgs EXCEPT !.tool = "search_data_references", !.address = a, !.pattern = "90",
                         !.binary_id = i] :
             a \in {"", "0x401000"}, i \in ToolIds}
    \cup {[NoArgs EXCEPT !.tool = "search_data_references"]}
    \cup {[NoArgs EXCEPT !.tool = "decompile_function", !.name = n, !.binary_id = i] :
             n \in {"", " ", "main"}, i \in ToolIds}
    \cup {[NoArgs EXCEPT !.tool = "read_memory", !.address = a, !.size = z] :
             a \in {"", "0x401000"}, z \in ToolSizes}
    \cup {[NoArgs EXCEPT !.tool = "read_memory", !.address = "0x401000", !.size = 1,
                         !.binary_id = i] : i \in ToolIds}

CallTool(t) ==
    /\ tpc[t] = "idle"
    /\ \E c \in ToolCalls : StartTool(t, c)

\* an operation kind that list_entities does not have, a size that
\* read_memory does not read
InvalidKindOrSize(c) ==
    \/ c.tool = "list_entities" /\ c.kind \notin ValidKinds
    \/ c.tool = "read_memory" /\ c.size \notin 1..4096
\* a limit of a list tool outside 1..MAX_LIMIT
LimitOutOfRange(c) == c.tool \in ListTools /\ c.limit \notin 1..MAX_LIMIT

\* the call returns a failure at once and touches nothing
RejectedAtOnce(t) ==
    /\ tpc'[t] = "done"
    /\ tret'[t] # <<>>
    /\ ~tret'[t][1].ok
    /\ tret'[t][1].error # <<>> /\ tret'[t][1].error[1] \notin {None, ""}
    /\ UNCHANGED <<requestVars, cacheVars>>

\* C19 as stated: a call with an invalid kind, a size outside 1..4096 or a
\* list limit outside 1..MAX_LIMIT returns ok=false in its first step,
\* without a probe, a request or a change of the registry or the cache.
C19_ValidationBeforeNetwork ==
    [][\A t \in DOMAIN tpc :
         (tpc[t] = "idle" /\ tpc'[t] # "idle"
          /\ (InvalidKindOrSize(call'[t]) \/ LimitOutOfRange(call'[t])))
         => RejectedAtOnce(t)]_vars

\* C19, amended: a call with an invalid kind or a size outside 1..4096
\* returns ok=false in its first step, without a probe, a request or a
\* change of the registry or the cache; a list call with a valid kind and a
\* limit outside 1..MAX_LIMIT is not rejected: it goes on to the cache with
\* the clamped limit.
C19_KindAndSizeBeforeNetwork ==
    [][\A t \in DOMAIN tpc :
         (tpc[t] = "idle" /\ tpc'[t] # "idle")
         => /\ InvalidKindOrSize(call'[t]) => RejectedAtOnce(t)
            /\ (LimitOutOfRange(call'[t]) /\ ~InvalidKindOrSize(call'[t]))
                 => /\ tpc'[t] = "get"
                    /\ cop'[t].fn = "get"
                    /\ \E i \in DOMAIN cop'[t].params :
                         /\ cop'[t].params[i][1] = "limit"
                         /\ cop'[t].params[i][2] = ClampLimit(<<call'[t].limit>>)]_vars

\* read_memory was called with an address and the size 4097
C19_Witness ==
    \E t \in DOMAIN tpc :
      /\ tpc[t] = "done"
      /\ call[t].tool = "read_memory" /\ call[t].address # "" /\ call[t].size = 4097
      /\ ~tret[t][1].ok
      /\ pc[t] = "idle" /\ servers = <<>> /\ store = <<>>

\* C20: a tool that has returned has returned a result; when its _request
\* reported an error or raised, or the registry did not have its server,
\* the result has ok=false and a non-empty error message; every result with
\* ok=false has a non-empty error message; a list tool returns the keys
\* items and hasMore, and with ok=false items=[] and hasMore=false.
C20_UniformFailure ==
    \A t \in DOMAIN tpc :
      tpc[t] = "done"
      => /\ tret[t] # <<>>
         /\ LET r == tret[t][1]
                h == thist[t]
            IN /\ (h.requested /\ (ErrSet(h.err) \/ h.raised)) => ~r.ok
               /\ h.lookup = "missing" => ~r.ok
               /\ r.ok \in BOOLEAN
               /\ ~r.ok => r.error # <<>> /\ r.error[1] \notin {None, ""}
               /\ call[t].tool \in ListTools
                    => /\ r.list
                       /\ ~r.ok => r.items = JList(<<>>) /\ r.hasMore = FALSE

\* health after the last attempt of its _request has failed
C20_Witness ==
    \E t \in DOMAIN tpc :
      /\ tpc[t] = "done"
      /\ call[t].tool = "health"
      /\ thist[t].reqs = MAX_RETRIES + 1
      /\ ErrSet(thist[t].err)
      /\ tret[t] = <<Result(FALSE, <<thist[t].err>>, FALSE, JList(<<>>), FALSE, <<JNull>>)>>

\* the layers above the registry and _request, at rest
InitCallersOf(T) == InitCacheOf(T) /\ InitNormIdle /\ InitToolsOf(T) /\ env = NotFollowed /\ InitPlugin

Init == InitOf(Tasks) /\ InitCallersOf(Tasks)

Next ==
    \/ Tick
    \/ \E t \in Tasks :
         \/ CallDiscoverServers(t)
         \/ CallGetServers(t)
         \/ CallGetServerById(t)
         \/ CallGetDefaultServer(t)
         \/ CallRequest(t)
         \/ Probe(t)
         \/ Commit(t)
         \/ ReturnDiscoverServers(t)
         \/ ReadGetServers(t)
         \/ ReadGetServerById(t)
         \/ ReadGetDefaultServer(t)
         \/ Resolve(t)
         \/ Attempt(t)
         \/ WakeUp(t)
         \/ Return(t)

Spec == Init /\ [][Next]_vars

\* ------------------------------------------------------------------------
\* Two invocations on the registry at the same time
\* ------------------------------------------------------------------------
\* Both invocations may sweep; "t2" is the one that goes on to read.  The
\* sweeps overlap within one unit of the wall clock (10 s).
Readers == {"t2"}

InitSweeps == InitOf(Threads) /\ InitCallersOf(Threads)

NextSweeps ==
    \/ \E t \in Threads :
         \/ CallDiscoverServers(t)
         \/ Probe(t)
         \/ Commit(t)
         \/ ReturnDiscoverServers(t)
         \/ Return(t)
    \/ \E t \in Readers :
         \/ CallGetServers(t)
         \/ CallGetServerById(t)
         \/ CallGetDefaultServer(t)
         \/ ReadGetServers(t)
         \/ ReadGetServerById(t)
         \/ ReadGetDefaultServer(t)

SpecSweeps == InitSweeps /\ [][NextSweeps]_vars

\* the mapping d holds exactly the records of the ports that the sweep
\* with the probes of log found loaded, and the sweep probed the whole range
CompleteSweep(d, log) ==
    /\ Len(log) = MAX_SERVERS
    /\ {d[j].port : j \in 1..Len(d)}
         = {log[i].port : i \in {i \in 1..Len(log) : log[i].saw = "loaded"}}

\* the step in which a reader takes its result from the registry
ReaderStep(t) == pc[t] = "read" /\ pc'[t] = "done" /\ op[t] # "discover_servers"
\* what a reader that finds the mapping d returns
ReadOf(t, d) ==
    CASE op[t] = "get_servers" -> RetMapping(d)
      [] op[t] = "get_server_by_id" -> RetInfo(DictGet(d, binary_id[t]))
      [] OTHER -> RetInfo(FirstValue(d))

\* C11: the shared mapping changes only in the single step that installs
\* the complete mapping of a finished sweep, and every reader returns what
\* the shared mapping holds at the step of its read; so a reader observes
\* the complete mapping of the previous sweep or of the new one, never a
\* part of a sweep's records.
C11_AtomicSnapshot ==
    [][ /\ servers' # servers
          => \E t \in DOMAIN pc :
                 /\ pc[t] = "commit" /\ pc'[t] = "read"
                 /\ servers' = discovered[t]
                 /\ CompleteSweep(discovered[t], probeLog[t])
        /\ \A t \in DOMAIN pc : ReaderStep(t) => ret'[t] = ReadOf(t, servers)
      ]_vars

\* the invocation is inside the loop of a sweep or about to install its result
Sweeping(t) == pc[t] \in {"probe", "commit"}

\* C33: of the sweeps of two invocations at most one runs in a discovery
\* interval; the timestamp of the last sweep never goes back, and a sweep
\* that started before the one whose result the registry holds installs
\* neither its mapping nor its timestamp.
C33_ConcurrentSweeps ==
    [][/\ \A t \in DOMAIN pc : \A u \in DOMAIN pc \ {t} :
             (Sweeping(t)' /\ Sweeping(u)') => ~Throttled(now'[u], now'[t])
       /\ last_discovery' >= last_discovery
       /\ \A t \in DOMAIN pc :
             (pc[t] = "commit" /\ pc'[t] = "read" /\ now[t] < last_discovery)
                 => servers' = servers
      ]_vars

\* a reader has returned the previous mapping while the sweep of another
\* invocation holds a part of its records
C11_Witness ==
    \E t \in DOMAIN pc : \E u \in DOMAIN pc \ {t} :
        /\ pc[t] = "probe" /\ port_offset[t] >= 1
        /\ discovered[t] # <<>>
        /\ pc[u] = "done" /\ op[u] = "get_servers"
        /\ ret[u].mapping = servers
        /\ servers # <<>>
        /\ {e.port : e \in {servers[j] : j \in 1..Len(servers)}}
             # {e.port : e \in {discovered[t][j] : j \in 1..Len(discovered[t])}}
\* ------------------------------------------------------------------------
\* A caller that works on the dict that get_servers returned to it, while
\* another invocation reads the registry.  The calls start after a sweep
\* that has found the servers of the first two ports, within the throttle
\* of that sweep, so that no sweep runs.
\* ------------------------------------------------------------------------
LoadedStatus == HttpCall(Respond(200, "OK", Body("", "object", "true", "a.exe")), ProbeTimeoutArg)
SweptRegistry ==
    ProbeEntries(LoadedStatus, BINJA_BASE_PORT, discovery_interval)
    \o ProbeEntries(LoadedStatus, BINJA_BASE_PORT + 1, discovery_interval)

InitSnapshot ==
    /\ InitFramesOf(Threads)
    /\ servers = SweptRegistry
    /\ last_discovery = discovery_interval
    /\ completedAt = discovery_interval
    /\ InitCallersOf(Threads)

\* the invocation holds the dict that get_servers returned
HoldsSnapshot(t) == pc[t] = "done" /\ op[t] = "get_servers"

\* a record of the caller's own making
OwnRecord ==
    [id |-> "port_1", url |-> Url(1), port |-> 1, filename |-> "own.exe", last_seen |-> 0]

\* line 77: self.servers.copy() is a new dict that holds the records of
\* self.servers themselves; what the caller writes into such a record is
\* written into the record of the registry
WriteThrough(d, id, rec) ==
    [j \in 1..Len(d) |-> IF d[j].id = id THEN rec ELSE d[j]]

\* snapshot[id] = record, for an id that the snapshot does not have
CallerAddsId(t) ==
    /\ HoldsSnapshot(t)
    /\ OwnRecord.id \notin DictKeys(ret[t].mapping)
    /\ ret' = [ret EXCEPT ![t].mapping = Append(@, OwnRecord)]
    /\ UNCHANGED <<clock, regVars, pc, op, binary_id, method, endpoint, sweepLocals,
                   reqLocals, entry, probeLog, reqHist, completedAt, callerVars>>

\* del snapshot[id]
CallerRemovesId(t) ==
    /\ HoldsSnapshot(t)
    /\ \E i \in 1..Len(ret[t].mapping) :
         ret' = [ret EXCEPT ![t].mapping =
                   [j \in 1..(Len(@) - 1) |-> IF j < i THEN @[j] ELSE @[j + 1]]]
    /\ UNCHANGED <<clock, regVars, pc, op, binary_id, method, endpoint, sweepLocals,
                   reqLocals, entry, probeLog, reqHist, completedAt, callerVars>>

\* snapshot[id]["filename"] = "edited.exe"
CallerModifiesField(t) ==
    /\ HoldsSnapshot(t)
    /\ \E i \in 1..Len(ret[t].mapping) :
         LET rec == [ret[t].mapping[i] EXCEPT !.filename = "edited.exe"]
         IN /\ ret[t].mapping[i].filename # "edited.exe"
            /\ ret' = [ret EXCEPT ![t].mapping[i] = rec]
            /\ servers' = WriteThrough(servers, rec.id, rec)
    /\ UNCHANGED <<clock, last_discovery, pc, op, binary_id, method, endpoint, sweepLocals,
                   reqLocals, entry, probeLog, reqHist, completedAt, callerVars>>

NextSnapshot ==
    \/ \E t \in Threads :
         \/ CallGetServers(t)
         \/ ReadGetServers(t)
         \/ Return(t)
    \/ \E t \in Tasks :
         \/ CallerAddsId(t)
         \/ CallerRemovesId(t)
         \/ CallerModifiesField(t)
    \/ \E t \in Readers :
         \/ CallGetServerById(t)
         \/ CallGetDefaultServer(t)
         \/ ReadGetServerById(t)
         \/ ReadGetDefaultServer(t)

SpecSnapshot == InitSnapshot /\ [][NextSnapshot]_vars

\* C24: whatever the caller of get_servers does with the dict that it was
\* given (add an id, remove an id, write a field of a record), a
\* get_servers, get_server_by_id or get_default_server of another
\* invocation returns what the registry held when the dict was handed out;
\* no sweep runs in between.
C24_SnapshotIsolation ==
    \A u \in Readers :
        pc[u] = "done" => ret[u] = ReadOf(u, SweptRegistry)

\* ------------------------------------------------------------------------
\* The start of the bridge and the requests that follow (lines 633-655)
\* ------------------------------------------------------------------------
\* "t1" is the main thread: it sweeps, reads the registry, and hands over to
\* mcp.run(), whose requests "t2" serves.  No instance is live when the
\* bridge starts; an instance goes live between two requests.

InitStartup ==
    /\ InitOf(Threads)
    /\ InitCacheOf(Threads) /\ InitNormIdle /\ InitToolsOf(Threads)
    /\ env = Followed({})
    /\ InitPlugin

\* line 640: server_registry.discover_servers()
StartupDiscover ==
    /\ last_discovery = 0
    /\ CallDiscoverServers("t1")

StartupReturn ==
    /\ op["t1"] = "discover_servers"
    /\ Return("t1")

\* line 641: servers = server_registry.get_servers()
StartupGetServers ==
    /\ last_discovery # 0
    /\ CallGetServers("t1")

\* lines 642-655: the servers are logged and mcp.run() takes over
StartupDone == pc["t1"] = "done" /\ op["t1"] = "get_servers"

\* a Binary Ninja instance loads a binary and starts to answer on its port
GoLive ==
    /\ StartupDone /\ pc["t2"] = "idle"
    /\ \E p \in Ports \ env.live : env' = Followed(env.live \cup {p})
    /\ UNCHANGED <<requestVars, cacheVars, normVars, toolVars, pluginVars>>

\* a tool request arrives
ServeRequest(t) ==
    /\ StartupDone
    /\ CallRequest(t)

NextStartup ==
    \/ Tick
    \/ StartupDiscover
    \/ StartupReturn
    \/ StartupGetServers
    \/ ReturnDiscoverServers("t1")
    \/ ReadGetServers("t1")
    \/ GoLive
    \/ \E t \in Threads :
         \/ Probe(t)
         \/ Commit(t)
    \/ \E t \in Readers :
         \/ ServeRequest(t)
         \/ Resolve(t)
         \/ Attempt(t)
         \/ WakeUp(t)
         \/ Return(t)

SpecStartup == InitStartup /\ [][NextStartup]_vars

\* the request names no instance or names a live one
AsksForLive(t) ==
    \/ binary_id[t] = None /\ env.live # {}
    \/ \E p \in env.live : binary_id[t] = BinaryId(p)

\* C26: the startup sweep found no server and an instance went live after it:
\* a request that arrives from then on, the first one included, resolves a
\* server and reports neither 'No Binary Ninja servers available' nor
\* 'Binary server ... not found'.
C26_LateDiscovery ==
    \A t \in Readers :
        (pc[t] = "done" /\ op[t] = "_request" /\ AsksForLive(t)) => base_url[t] # ""

\* ------------------------------------------------------------------------
\* select_binary_by_filename (lines 270-309)
\* ------------------------------------------------------------------------
\* A str is taken as the sequence of its characters.  The filenames and the
\* queries of the calls:
FileNames == {"a.exe", "ab.exe", "A.EXE", "b.exe", "unknown"}
Queries == {"", "a", "A.exe", "b.exe", "AB", "exe", "z"}

Chars(s) ==
    CASE s = "" -> <<>>
      [] s = "a" -> <<"a">>
      [] s = "z" -> <<"z">>
      [] s = "AB" -> <<"A", "B">>
      [] s = "exe" -> <<"e", "x", "e">>
      [] s = "a.exe" -> <<"a", ".", "e", "x", "e">>
      [] s = "A.exe" -> <<"A", ".", "e", "x", "e">>
      [] s = "A.EXE" -> <<"A", ".", "E", "X", "E">>
      [] s = "b.exe" -> <<"b", ".", "e", "x", "e">>
      [] s = "ab.exe" -> <<"a", "b", ".", "e", "x", "e">>
      [] s = "unknown" -> <<"u", "n", "k", "n", "o", "w", "n">>

\* ord(c)
Ord(c) ==
    CASE c = "." -> 46
      [] c = "A" -> 65 [] c = "B" -> 66 [] c = "E" -> 69 [] c = "X" -> 88
      [] c = "a" -> 97 [] c = "b" -> 98 [] c = "e" -> 101 [] c = "k" -> 107
      [] c = "n" -> 110 [] c = "o" -> 111 [] c = "u" -> 117 [] c = "w" -> 119
      [] c = "x" -> 120 [] c = "z" -> 122

\* a comparison that takes the characters as they are
AsIs(cs) == cs
\* str.lower()
Lower(cs) ==
    [i \in 1..Len(cs) |-> IF Ord(cs[i]) >= 65 /\ Ord(cs[i]) <= 90
                          THEN CHOOSE c \in {"a", "b", "e", "x"} : Ord(c) = Ord(cs[i]) + 32
                          ELSE cs[i]]
\* needle in hay, of two str
IsIn(needle, hay) ==
    \E i \in 1..(Len(hay) - Len(needle) + 1) : SubSeq(hay, i, i + Len(needle) - 1) = needle
\* a < b, of two str
StrLess(a, b) ==
    \E i \in 1..(Len(a) + 1) :
        /\ \A j \in 1..(i - 1) : j <= Len(b) /\ a[j] = b[j]
        /\ IF i <= Len(a) THEN i <= Len(b) /\ Ord(a[i]) < Ord(b[i]) ELSE Len(b) > Len(a)

\* lines 283-288
Match(info, filename) ==
    [binary_id |-> info.id, filename |-> info.filename, port |-> info.port,
     exact_match |-> Lower(Chars(filename)) = Lower(Chars(info.filename))]
\* lines 280-288: the matches in the order of the dict
RECURSIVE MatchesOf(_, _)
MatchesOf(d, filename) ==
    IF d = <<>> THEN <<>>
    ELSE (IF IsIn(Lower(Chars(filename)), Lower(Chars(d[1].filename)))
          THEN <<Match(d[1], filename)>> ELSE <<>>)
         \o MatchesOf(Tail(d), filename)

\* a sort by the filename alone
ByFilename(x, y) == StrLess(Chars(x.filename), Chars(y.filename))
\* line 298: key(x) < key(y) for the key (not x["exact_match"], x["filename"])
KeyLess(x, y) ==
    \/ x.exact_match /\ ~y.exact_match
    \/ x.exact_match = y.exact_match /\ StrLess(Chars(x.filename), Chars(y.filename))
\* list.sort is stable: x goes behind the elements that are not greater
RECURSIVE Insert(_, _)
Insert(sorted, x) ==
    IF sorted = <<>> THEN <<x>>
    ELSE IF KeyLess(x, sorted[1]) THEN <<x>> \o sorted
    ELSE <<sorted[1]>> \o Insert(Tail(sorted), x)
RECURSIVE SortMatches(_)
SortMatches(m) ==
    IF m = <<>> THEN <<>>
    ELSE Insert(SortMatches(SubSeq(m, 1, Len(m) - 1)), m[Len(m)])

\* what the tool returns: a key that the dict does not have is <<>>
Selection(ok, error, matches, selected, available, message) ==
    [ok |-> ok, error |-> error, matches |-> matches, selected |-> selected,
     available_binaries |-> available, message |-> message]

\* lines 277-305, for the dict that get_servers returned
SelectByFilename(d, filename) ==
    LET matches == MatchesOf(d, filename)
    IN IF matches = <<>>
       THEN Selection(FALSE, <<"No binary found matching filename '" \o filename \o "'">>,
                      <<>>, <<>>, <<[i \in 1..Len(d) |-> d[i].filename]>>, <<>>)
       ELSE LET sorted == SortMatches(matches)
            IN Selection(TRUE, <<>>, <<sorted>>, <<sorted[1].binary_id>>, <<>>,
                         <<"Found " \o ToString(Len(sorted)) \o " match(es) for '"
                           \o filename \o "'">>)

\* the registry after a sweep that found instances with these filenames on
\* the first ports
NamedRegistry(names) ==
    [i \in 1..Len(names) |->
        [id |-> BinaryId(BINJA_BASE_PORT + i - 1), url |-> Url(BINJA_BASE_PORT + i - 1),
         port |-> BINJA_BASE_PORT + i - 1, filename |-> names[i],
         last_seen |-> discovery_interval]]

InitSelect ==
    /\ InitFramesOf(Tasks)
    /\ \E n \in 0..MAX_SERVERS : \E names \in [1..n -> FileNames] :
         servers = NamedRegistry(names)
    /\ last_discovery = discovery_interval
    /\ completedAt = discovery_interval
    /\ InitCallersOf(Tasks)

\* line 277: the tool is called and calls get_servers
CallSelect(t) ==
    /\ tpc[t] = "idle" /\ pc[t] = "idle"
    /\ \E q \in Queries :
         call' = [call EXCEPT ![t] = [NoArgs EXCEPT !.tool = "select_binary_by_filename",
                                                    !.filename = q]]
    /\ tpc' = [tpc EXCEPT ![t] = "servers"]
    /\ op' = [op EXCEPT ![t] = "get_servers"]
    /\ DiscoverEnter(t)
    /\ UNCHANGED <<binary_id, method, endpoint>>
    /\ UNCHANGED <<tret, thist, cacheVars, idleVars>>

\* lines 278-305: get_servers has returned; ret keeps the local servers
SelectReturn(t) ==
    /\ tpc[t] = "servers" /\ pc[t] = "done"
    /\ tret' = [tret EXCEPT ![t] = <<SelectByFilename(ret[t].mapping, call[t].filename)>>]
    /\ tpc' = [tpc EXCEPT ![t] = "done"]
    /\ UNCHANGED <<call, thist, requestVars, cacheVars, idleVars>>

\* the tool has returned
SelectDone(t) ==
    /\ tpc[t] = "done"
    /\ PopFrame(t)
    /\ tpc' = [tpc EXCEPT ![t] = "idle"]
    /\ call' = [call EXCEPT ![t] = NoCall]
    /\ tret' = [tret EXCEPT ![t] = <<>>]
    /\ UNCHANGED <<thist, cacheVars, idleVars>>

NextSelect ==
    \/ Tick
    \/ \E t \in Tasks :
         \/ CallSelect(t)
         \/ Probe(t)
         \/ Commit(t)
         \/ ReadGetServers(t)
         \/ SelectReturn(t)
         \/ SelectDone(t)

SpecSelect == InitSelect /\ [][NextSelect]_vars

\* two characters that differ in case at most
SameLetter(c, d) == c = d \/ <<c, d>> \in {<<"a", "A">>, <<"A", "a">>, <<"b", "B">>, <<"B", "b">>,
                                           <<"e", "E">>, <<"E", "e">>, <<"x", "X">>, <<"X", "x">>}
\* the query occurs in the name, whatever the case of the letters
Occurs(q, name) ==
    \E k \in 0..Len(Chars(name)) :
        \A j \in 1..Len(Chars(q)) :
            k + j <= Len(Chars(name)) /\ SameLetter(Chars(name)[k + j], Chars(q)[j])
\* the query is the name, whatever the case of the letters
IsName(q, name) ==
    /\ Len(Chars(q)) = Len(Chars(name))
    /\ \A j \in 1..Len(Chars(q)) : SameLetter(Chars(name)[j], Chars(q)[j])
Selected(t) == tpc[t] = "done" /\ call[t].tool = "select_binary_by_filename"
Snapshot(t) == ret[t].mapping
Range(f) == {f[i] : i \in DOMAIN f}

\* C21: the matches of select_binary_by_filename are the instances of the
\* dict that get_servers returned whose filename contains the query,
\* whatever the case of the letters, each with its id, filename and port;
\* when there is none the tool returns ok=false with the filenames of all
\* instances of that dict, no match and no selection.
C21_SelectorMatching ==
    \A t \in DOMAIN tpc :
        Selected(t) =>
            LET r == tret[t][1]
                q == call[t].filename
                hits == {e \in Range(Snapshot(t)) : Occurs(q, e.filename)}
            IN IF hits = {}
               THEN /\ ~r.ok /\ r.error # <<>>
                    /\ r.matches = <<>> /\ r.selected = <<>>
                    /\ r.available_binaries
                         = <<[i \in 1..Len(Snapshot(t)) |-> Snapshot(t)[i].filename]>>
               ELSE /\ r.ok /\ r.matches # <<>>
                    /\ Len(r.matches[1]) = Cardinality(hits)
                    /\ {[id |-> m.binary_id, filename |-> m.filename, port |-> m.port]
                          : m \in Range(r.matches[1])}
                         = {[id |-> e.id, filename |-> e.filename, port |-> e.port] : e \in hits}

\* two instances of which one matches a query in capitals and one does not
C21_Witness ==
    \E t \in DOMAIN tpc :
        /\ Selected(t) /\ call[t].filename = "AB"
        /\ tret[t][1].ok /\ Len(tret[t][1].matches[1]) = 1
        /\ Len(Snapshot(t)) = 2

\* a query that no instance matches, with instances in the registry
C21_WitnessNotFound ==
    \E t \in DOMAIN tpc :
        /\ Selected(t) /\ ~tret[t][1].ok
        /\ Len(Snapshot(t)) = 2

\* C22: in the matches every instance whose filename is the query, whatever
\* the case of the letters, comes before every instance that contains it
\* only; of two instances of equal exactness the one with the smaller
\* filename comes first; exact_match says which is which; the selected id
\* is the id of the first match.
C22_SelectorRanking ==
    \A t \in DOMAIN tpc :
        (Selected(t) /\ tret[t][1].ok) =>
            LET r == tret[t][1]
                q == call[t].filename
                m == r.matches[1]
            IN /\ \A i \in 1..Len(m) : m[i].exact_match = IsName(q, m[i].filename)
               /\ \A i \in 1..Len(m) : \A j \in (i + 1)..Len(m) :
                    /\ IsName(q, m[j].filename) => IsName(q, m[i].filename)
                    /\ (IsName(q, m[i].filename) = IsName(q, m[j].filename))
                         => ~StrLess(Chars(m[j].filename), Chars(m[i].filename))
               /\ r.selected = <<m[1].binary_id>>

\* the instance that is the query comes first although its filename is the
\* greater one and its port the higher one
C22_Witness ==
    \E t \in DOMAIN tpc :
        /\ Selected(t) /\ tret[t][1].ok
        /\ call[t].filename = "b.exe"
        /\ Len(tret[t][1].matches[1]) = 2
        /\ tret[t][1].matches[1][1].filename = "b.exe"
        /\ tret[t][1].matches[1][2].filename = "ab.exe"
        /\ tret[t][1].selected = <<BinaryId(BINJA_BASE_PORT + 1)>>

\* ------------------------------------------------------------------------
\* The plugin: MultiBinaryManager and MultiBinaryRegistry
\* (src/plugin/core/multi_binary_manager.py, src/plugin/core/config.py)
\* ------------------------------------------------------------------------
\* MultiBinaryServerConfig.base_port
base_port == 9009
\* MultiBinaryServerConfig.max_servers, 10 in the source
max_servers == 2
\* the binary views that the manager is called with: three binaries, None,
\* and a view whose file is None
Views == {"b1", "b2", "b3", "none", "nofile"}
\* _generate_binary_id: the hash of name and length stands for the binary
generate_binary_id(v) == IF v \in {"none", "nofile"} THEN "unknown" ELSE v
BinaryIds == {generate_binary_id(v) : v \in Views}

\* dict operations
DictPut(d, k, v) == [x \in DOMAIN d \cup {k} |-> IF x = k THEN v ELSE d[x]]
DictDel(d, k) == [x \in DOMAIN d \ {k} |-> d[x]]

\* MultiBinaryServerConfig.get_port_for_index
get_port_for_index(index) == base_port + index

\* get_next_port: the indexes from _next_port_index on whose port is free
FreeFrom(index, p2b) ==
    {k \in index..(max_servers - 1) : get_port_for_index(k) \notin DOMAIN p2b}
Least(S) == CHOOSE k \in S : \A j \in S : k <= j
NoPorts == "No available ports (max " \o ToString(max_servers) \o " servers)"
\* get_next_port: the port it returns, <<>> when it raises, and the index it leaves
get_next_port(index, p2b) ==
    IF FreeFrom(index, p2b) = {}
    THEN [port |-> <<>>,
          index |-> IF index < max_servers THEN max_servers ELSE index,
          raised |-> NoPorts]
    ELSE [port |-> <<get_port_for_index(Least(FreeFrom(index, p2b)))>>,
          index |-> Least(FreeFrom(index, p2b)) + 1,
          raised |-> ""]

\* a register_binary that leaves _port_to_binary alone
ForgetPort(p2b, port, id) == p2b
\* config.py line 56
register_port(p2b, port, id) == DictPut(p2b, port, id)
\* an unregister_binary that leaves _port_to_binary alone
KeepPort(p2b, port) == p2b
\* config.py lines 64-65
unregister_port(p2b, port) == DictDel(p2b, port)
\* is_port_available
is_port_available(p2b, port) == port \notin DOMAIN p2b

\* a manager that starts a server also for a binary that has one
NeverRunning(id, ms) == FALSE
\* multi_binary_manager.py line 37
AlreadyRunning(id, ms) == id \in DOMAIN ms

InitPorts == InitOf(Tasks) /\ InitCallersOf(Tasks)

bridgeVars == <<requestVars, cacheVars, normVars, toolVars, env>>

\* lines 33-39: the manager is called with a view
StartCheck(t) ==
    /\ mpc[t] = "idle"
    /\ \E v \in Views :
         LET id == generate_binary_id(v)
         IN /\ mlocal' = [mlocal EXCEPT ![t] = [view |-> v, id |-> id, port |-> 0]]
            /\ IF AlreadyRunning(id, manager_servers)
               THEN /\ mpc' = [mpc EXCEPT ![t] = "done"]
                    /\ outcome' = [outcome EXCEPT ![t] =
                                     [NoOutcome EXCEPT !.op = "start", !.binary = id,
                                                       !.returned = id]]
               ELSE /\ mpc' = [mpc EXCEPT ![t] = "port"]
                    /\ outcome' = [outcome EXCEPT ![t] =
                                     [NoOutcome EXCEPT !.op = "start", !.binary = id]]
    /\ UNCHANGED <<pluginTables, bridgeVars>>

\* line 42: get_next_port, under the lock of the registry
StartPort(t) ==
    /\ mpc[t] = "port"
    /\ LET g == get_next_port(next_port_index, port_to_binary)
       IN /\ next_port_index' = g.index
          /\ IF g.port = <<>>
             THEN /\ mpc' = [mpc EXCEPT ![t] = "done"]
                  /\ outcome' = [outcome EXCEPT ![t].raised = g.raised, ![t].returned = "None"]
                  /\ UNCHANGED mlocal
             ELSE /\ mpc' = [mpc EXCEPT ![t] = "create"]
                  /\ mlocal' = [mlocal EXCEPT ![t].port = g.port[1]]
                  /\ outcome' = [outcome EXCEPT ![t].port = g.port]
    /\ UNCHANGED <<manager_servers, registry_servers, port_to_binary, running, bridgeVars>>

\* lines 45-51: the server is created and started, or its start raises
StartServer(t) ==
    /\ mpc[t] = "create"
    /\ \E starts \in BOOLEAN :
         IF starts
         THEN /\ running' = DictPut(running, mlocal[t].port, mlocal[t].id)
              /\ mpc' = [mpc EXCEPT ![t] = "record"]
              /\ outcome' = [outcome EXCEPT ![t].started = TRUE]
         ELSE /\ mpc' = [mpc EXCEPT ![t] = "done"]
              /\ outcome' = [outcome EXCEPT ![t].raised = "start failed",
                                            ![t].returned = "None"]
              /\ UNCHANGED running
    /\ UNCHANGED <<manager_servers, registry_servers, port_to_binary, next_port_index,
                   mlocal, bridgeVars>>

\* line 54: self._servers[binary_id] = server
StartRecord(t) ==
    /\ mpc[t] = "record"
    /\ manager_servers' = DictPut(manager_servers, mlocal[t].id, mlocal[t].port)
    /\ mpc' = [mpc EXCEPT ![t] = "register"]
    /\ UNCHANGED <<registry_servers, port_to_binary, next_port_index, running,
                   mlocal, outcome, bridgeVars>>

\* lines 55-66: register_binary, under the lock of the registry, and the
\* log line; binary_view.file.filename raises for a view without a file
\* (config.py line 54) and for None (line 58)
StartRegister(t) ==
    /\ mpc[t] = "register"
    /\ IF mlocal[t].view = "nofile"
       THEN /\ outcome' = [outcome EXCEPT ![t].raised = "AttributeError",
                                          ![t].returned = "None"]
            /\ UNCHANGED <<registry_servers, port_to_binary>>
       ELSE /\ registry_servers' = DictPut(registry_servers, mlocal[t].id, mlocal[t].port)
            /\ port_to_binary' = register_port(port_to_binary, mlocal[t].port, mlocal[t].id)
            /\ outcome' = IF mlocal[t].view = "none"
                          THEN [outcome EXCEPT ![t].raised = "AttributeError",
                                               ![t].returned = "None"]
                          ELSE [outcome EXCEPT ![t].returned = mlocal[t].id]
    /\ mpc' = [mpc EXCEPT ![t] = "done"]
    /\ UNCHANGED <<manager_servers, next_port_index, running, mlocal, bridgeVars>>

\* the tables after stop_server_for_binary(id), whose server.stop() raises
\* unless stops (lines 74-91, with unregister_binary)
StopOne(st, id, stops) ==
    IF id \notin DOMAIN st.m THEN [st EXCEPT !.returned = "False", !.raised = ""]
    ELSE IF ~stops THEN [st EXCEPT !.returned = "False", !.raised = "stop failed"]
    ELSE [m |-> DictDel(st.m, id),
          run |-> DictDel(st.run, st.m[id]),
          r |-> DictDel(st.r, id),
          p |-> IF id \in DOMAIN st.r /\ st.r[id] \in DOMAIN st.p
                THEN unregister_port(st.p, st.r[id]) ELSE st.p,
          returned |-> "True", raised |-> ""]
Tables == [m |-> manager_servers, r |-> registry_servers, p |-> port_to_binary,
           run |-> running, returned |-> "", raised |-> ""]
Install(st) ==
    /\ manager_servers' = st.m
    /\ registry_servers' = st.r
    /\ port_to_binary' = st.p
    /\ running' = st.run

\* stop_server_for_binary
stop_server_for_binary(t) ==
    /\ mpc[t] = "idle"
    /\ \E id \in BinaryIds, stops \in BOOLEAN :
         LET st == StopOne(Tables, id, stops)
         IN /\ Install(st)
            /\ mlocal' = [mlocal EXCEPT ![t] =
                            [NoLocal EXCEPT !.id = id,
                                            !.port = IF id \in DOMAIN manager_servers
                                                     THEN manager_servers[id] ELSE 0]]
            /\ outcome' = [outcome EXCEPT ![t] =
                             [NoOutcome EXCEPT !.op = "stop", !.binary = id,
                                               !.returned = st.returned,
                                               !.raised = st.raised]]
    /\ mpc' = [mpc EXCEPT ![t] = "done"]
    /\ UNCHANGED <<next_port_index, bridgeVars>>

\* the ids in the order of a dict that holds them all
IdOrder == <<"b1", "b2", "b3", "unknown">>
Rank4(id) == CHOOSE i \in 1..Len(IdOrder) : IdOrder[i] = id
\* a loop that ends with the first stop that fails
StopAtFailure(st, rest) == IF st.returned = "False" THEN {} ELSE rest
\* lines 96-97: the loop goes on whatever stop_server_for_binary returned
GoOn(st, rest) == rest
\* lines 95-97: the loop over the ids, of which those in failing do not stop
RECURSIVE StopEach(_, _, _, _)
StopEach(st, ids, failing, attempted) ==
    IF ids = {} THEN [st |-> st, attempted |-> attempted]
    ELSE LET id == CHOOSE x \in ids : \A y \in ids : Rank4(x) <= Rank4(y)
             next == StopOne(st, id, id \notin failing)
         IN StopEach(next, GoOn(next, ids \ {id}), failing, attempted \cup {id})

\* stop_all_servers
stop_all_servers(t) ==
    /\ mpc[t] = "idle"
    /\ \E failing \in SUBSET DOMAIN manager_servers :
         LET end == StopEach(Tables, DOMAIN manager_servers, failing, {})
         IN /\ Install(end.st)
            /\ outcome' = [outcome EXCEPT ![t] =
                             [NoOutcome EXCEPT !.op = "stop_all", !.returned = "None",
                                               !.attempted = end.attempted]]
    /\ mpc' = [mpc EXCEPT ![t] = "done"]
    /\ UNCHANGED <<next_port_index, mlocal, bridgeVars>>

\* the method has returned
ManagerReturn(t) ==
    /\ mpc[t] = "done"
    /\ mpc' = [mpc EXCEPT ![t] = "idle"]
    /\ mlocal' = [mlocal EXCEPT ![t] = NoLocal]
    /\ outcome' = [outcome EXCEPT ![t] = NoOutcome]
    /\ UNCHANGED <<pluginTables, bridgeVars>>

NextPorts ==
    \E t \in Tasks :
        \/ StartCheck(t)
        \/ StartPort(t)
        \/ StartServer(t)
        \/ StartRecord(t)
        \/ StartRegister(t)
        \/ stop_server_for_binary(t)
        \/ stop_all_servers(t)
        \/ ManagerReturn(t)

SpecPorts == InitPorts /\ [][NextPorts]_vars

\* the ports of the registered binaries
Assigned == {registry_servers[b] : b \in DOMAIN registry_servers}
StartDone(t) == mpc[t] = "done" /\ outcome[t].op = "start"

\* C27: a start takes its port from get_next_port: the port lies in
\* [base_port, base_port + max_servers) and no other registered binary has
\* it, and the start fails with 'No available ports' only when max_servers
\* binaries are registered, after any starts and stops.
C27_PortAllocation ==
    \A t \in DOMAIN mpc :
        StartDone(t) =>
            /\ outcome[t].port # <<>> =>
                 /\ outcome[t].port[1] \in base_port..(base_port + max_servers - 1)
                 /\ \A b \in DOMAIN registry_servers \ {outcome[t].binary} :
                        registry_servers[b] # outcome[t].port[1]
            /\ outcome[t].raised = NoPorts => Cardinality(Assigned) = max_servers

\* ------------------------------------------------------------------------
\* A request with its retries while another invocation sweeps
\* ------------------------------------------------------------------------
\* "t1" calls discover_servers, "t2" calls _request; the registry is new,
\* so that both sweep when they start within one unit of the wall clock.
NextRequestRace ==
    \/ \E t \in Tasks :
         \/ CallDiscoverServers(t)
         \/ ReturnDiscoverServers(t)
    \/ \E t \in Threads :
         \/ Probe(t)
         \/ Commit(t)
         \/ Return(t)
    \/ \E t \in Readers :
         \/ CallRequest(t)
         \/ Resolve(t)
         \/ Attempt(t)
         \/ WakeUp(t)

SpecRequestRace == InitSweeps /\ [][NextRequestRace]_vars

\* the invocation is past the resolution of its target
Resolved(t) == op[t] = "_request" /\ base_url[t] # ""

\* C32: a request resolves its target once: every attempt it has sent went
\* to the URL that the lookup gave in the mapping the request read at its
\* start, whatever the registry holds since; from its first attempt on the
\* request neither changes its URL nor reads or sweeps the registry.
C32_OneResolvedInstance ==
    [][\A t \in DOMAIN pc :
         /\ Resolved(t)' =>
              \A i \in 1..Len(reqLog'[t]) :
                  reqLog'[t][i].url
                    = LookupUrl(entry'[t].servers, binary_id'[t]) \o "/" \o endpoint'[t]
         /\ (Resolved(t) /\ pc'[t] # "idle") =>
              /\ base_url'[t] = base_url[t]
              /\ entry'[t] = entry[t]
              /\ probeLog'[t] = <<>>
              /\ pc'[t] \in {"attempt", "sleep", "blocked", "done"}
      ]_vars

\* a retry goes to the URL of a record that a sweep of the other invocation
\* has removed from the registry since
C32_Witness ==
    \E t \in Readers :
        /\ Resolved(t) /\ Len(reqLog[t]) >= 2
        /\ LookupUrl(servers, binary_id[t]) # base_url[t]
        /\ servers # entry[t].servers

\* C36: whatever the manager has been asked to do, one call after the
\* other, _port_to_binary is the inverse of the ports in the records of
\* the registry: every registered binary is mapped from its port, every
\* mapped port is the port of the binary it names, and no two registered
\* binaries have the same port.
C36_RegistryInverse ==
    /\ \A b \in DOMAIN registry_servers :
           /\ registry_servers[b] \in DOMAIN port_to_binary
           /\ port_to_binary[registry_servers[b]] = b
    /\ \A p \in DOMAIN port_to_binary :
           /\ port_to_binary[p] \in DOMAIN registry_servers
           /\ registry_servers[port_to_binary[p]] = p
    /\ \A b1 \in DOMAIN registry_servers, b2 \in DOMAIN registry_servers :
           registry_servers[b1] = registry_servers[b2] => b1 = b2
\* a binary is registered on the second port after the first port has been
\* given back
C36_Witness ==
    /\ mpc["t1"] = "idle"
    /\ DOMAIN registry_servers = {"b2"}
    /\ registry_servers["b2"] = base_port + 1
    /\ DOMAIN port_to_binary = {base_port + 1}
    /\ is_port_available(port_to_binary, base_port)

\* C37: a call of start_server_for_binary for a binary whose server is in
\* the manager's table returns at once with the id of that binary: it
\* starts no server, takes no port, leaves _next_port_index where it was,
\* and changes neither the manager's table nor the registry.
C37_IdempotentStart ==
    [][\A t \in DOMAIN mpc :
          (/\ mpc[t] = "idle"
           /\ mpc'[t] # "idle"
           /\ outcome'[t].op = "start"
           /\ outcome'[t].binary \in DOMAIN manager_servers)
          => /\ mpc'[t] = "done"
             /\ outcome'[t].returned = outcome'[t].binary
             /\ ~outcome'[t].started
             /\ outcome'[t].port = <<>>
             /\ pluginTables' = pluginTables]_vars
\* the second start of a binary has returned its id
C37_Witness ==
    /\ StartDone("t1")
    /\ outcome["t1"].binary = "b1"
    /\ outcome["t1"].returned = "b1"
    /\ outcome["t1"].port = <<>>
    /\ "b1" \in DOMAIN manager_servers
    /\ running = DictPut(EmptyDict, manager_servers["b1"], "b1")

\* the ids that have a running server
Served == {running[p] : p \in DOMAIN running}

\* C38: when start_server_for_binary returns None, no server of that binary
\* runs, the binary is in neither the manager's table nor the registry, and
\* the two tables have the same binary ids.
C38_FailedStartLeavesNothing ==
    \A t \in DOMAIN mpc :
        (StartDone(t) /\ outcome[t].returned = "None")
        => /\ outcome[t].binary \notin Served
           /\ outcome[t].binary \notin DOMAIN manager_servers
           /\ outcome[t].binary \notin DOMAIN registry_servers
           /\ DOMAIN manager_servers = DOMAIN registry_servers

StopStep(t) == mpc[t] = "idle" /\ mpc'[t] = "done" /\ outcome'[t].op = "stop"
StopAllStep(t) == mpc[t] = "idle" /\ mpc'[t] = "done" /\ outcome'[t].op = "stop_all"

\* C39: stop_server_for_binary returns False and changes nothing for an id
\* that the manager does not have; when it returns True the binary is in
\* neither the manager's table nor the registry and its port is available;
\* when the stop of the server fails it returns False and the tables keep
\* what they held of the binary; stop_all_servers calls
\* stop_server_for_binary for every binary of the manager's table, also
\* after a stop that failed.
C39_StopSemantics ==
    [][\A t \in DOMAIN mpc :
          /\ StopStep(t) =>
               LET id == outcome'[t].binary
               IN /\ id \notin DOMAIN manager_servers
                       => outcome'[t].returned = "False" /\ pluginTables' = pluginTables
                  /\ outcome'[t].returned = "True"
                       => /\ id \in DOMAIN manager_servers
                          /\ id \notin DOMAIN manager_servers'
                          /\ id \notin DOMAIN registry_servers'
                          /\ is_port_available(port_to_binary', manager_servers[id])
                  /\ outcome'[t].raised # ""
                       => /\ outcome'[t].returned = "False"
                          /\ id \in DOMAIN manager_servers'
                          /\ pluginTables' = pluginTables
          /\ StopAllStep(t) => outcome'[t].attempted = DOMAIN manager_servers]_vars
\* stop_all_servers has gone on to b2 after the stop of b1 failed
C39_Witness ==
    /\ mpc["t1"] = "done"
    /\ outcome["t1"].op = "stop_all"
    /\ outcome["t1"].attempted = {"b1", "b2"}
    /\ DOMAIN manager_servers = {"b1"}
    /\ DOMAIN registry_servers = {"b1"}
    /\ is_port_available(port_to_binary, base_port + 1)
\* a stop has returned True and the port of the binary is free again
C39_WitnessStopped ==
    /\ mpc["t1"] = "done"
    /\ outcome["t1"].op = "stop"
    /\ outcome["t1"].returned = "True"
    /\ mlocal["t1"].port = base_port
    /\ is_port_available(port_to_binary, base_port)
    /\ DOMAIN manager_servers = {"b2"}

\* start_server_for_binary in several threads of the host: the manager has
\* no lock, so the threads interleave between the lines; get_next_port and
\* register_binary are each one step, under the lock of the registry
NextStartRace ==
    \E t \in Threads :
        \/ StartCheck(t)
        \/ StartPort(t)
        \/ StartServer(t)
        \/ StartRecord(t)
        \/ StartRegister(t)
        \/ ManagerReturn(t)

SpecStartRace == InitPorts /\ [][NextStartRace]_vars

\* the ports on which a server of the binary runs, and the ports mapped to it
ServersOf(id) == {p \in DOMAIN running : running[p] = id}
PortsOf(id) == {p \in DOMAIN port_to_binary : port_to_binary[p] = id}
HasPort(t) == mpc[t] \in {"create", "record", "register", "done"} /\ mlocal[t].port # 0

\* C40: when start_server_for_binary runs in several threads at once, calls
\* for different binaries get different ports, and the calls for one binary
\* leave one running server and one mapped port of that binary.
C40_ConcurrentStarts ==
    /\ \A t1 \in Threads, t2 \in Threads :
           (HasPort(t1) /\ HasPort(t2) /\ mlocal[t1].id # mlocal[t2].id)
           => mlocal[t1].port # mlocal[t2].port
    /\ \A id \in BinaryIds :
           /\ Cardinality(ServersOf(id)) <= 1
           /\ Cardinality(PortsOf(id)) <= 1

\* ------------------------------------------------------------------------
\* The cache alone: one invocation at a time, and two at the same time
\* ------------------------------------------------------------------------
InitCache == InitOf(Tasks) /\ InitCallersOf(Tasks)

NextCache ==
    \/ TickMono
    \/ \E t \in Tasks :
         \/ CallGet(t)
         \/ CallSet(t)
         \/ GetLookup(t)
         \/ GetCheck(t)
         \/ GetPop(t)
         \/ Set(t)
         \/ CacheReturn(t)

SpecCache == InitCache /\ [][NextCache]_vars

InitCacheRace == InitOf(Threads) /\ InitCallersOf(Threads)

NextCacheRace ==
    \/ TickMono
    \/ \E t \in Threads :
         \/ RaceGet(t)
         \/ RaceSet(t)
         \/ GetLookup(t)
         \/ GetCheck(t)
         \/ GetPop(t)
         \/ Set(t)
         \/ CacheReturn(t)

SpecCacheRace == InitCacheRace /\ [][NextCacheRace]_vars
\* ------------------------------------------------------------------------
\* _clamp_paging and the envelope of _list_endpoint on given inputs
\* ------------------------------------------------------------------------
InitNormalizer ==
    /\ InitOf(Tasks) /\ InitCacheOf(Tasks) /\ InitToolsOf(Tasks)
    /\ InitNorm /\ env = NotFollowed /\ InitPlugin

NextNormalizer ==
    \/ ApplyClampPaging
    \/ ApplyListResponse

SpecNormalizer == InitNormalizer /\ [][NextNormalizer]_vars
\* ------------------------------------------------------------------------
\* One list call after the other, while the monotonic clock advances
\* ------------------------------------------------------------------------
InitList == InitOf(Tasks) /\ InitCallersOf(Tasks)

NextList ==
    \/ TickMono
    \/ \E t \in Tasks :
         \/ CallList(t)
         \/ GetLookup(t)
         \/ GetCheck(t)
         \/ GetPop(t)
         \/ AfterGet(t)
         \/ Probe(t)
         \/ Commit(t)
         \/ Resolve(t)
         \/ Attempt(t)
         \/ WakeUp(t)
         \/ AfterRequest(t)
         \/ Set(t)
         \/ AfterSet(t)
         \/ ToolReturn(t)

SpecList == InitList /\ [][NextList]_vars
\* ------------------------------------------------------------------------
\* One call of a tool
\* ------------------------------------------------------------------------
InitTools == InitOf(Tasks) /\ InitCallersOf(Tasks)

NextTools ==
    \E t \in Tasks :
      \/ CallTool(t)
      \/ GetLookup(t)
      \/ AfterGet(t)
      \/ Probe(t)
      \/ Commit(t)
      \/ ReadGetServerById(t)
      \/ AfterLookup(t)
      \/ RequestAfterLookup(t)
      \/ Resolve(t)
      \/ Attempt(t)
      \/ WakeUp(t)
      \/ AfterRequest(t)
      \/ Set(t)
      \/ AfterSet(t)

SpecTools == InitTools /\ [][NextTools]_vars

\* ------------------------------------------------------------------------
\* List calls, one after the other, while a second invocation of the same
\* call is in its ttl_cache.get.  The calls start after a sweep that has
\* found the server of the base port, within the throttle of that sweep.
\* ------------------------------------------------------------------------
SweptServers ==
    ProbeEntries(HttpCall(Respond(200, "OK", Body("", "object", "true", "a.exe")),
                          ProbeTimeoutArg),
                 BINJA_BASE_PORT, discovery_interval)

InitListRace ==
    /\ InitFramesOf(Threads)
    /\ servers = SweptServers
    /\ last_discovery = discovery_interval
    /\ completedAt = discovery_interval
    /\ InitCallersOf(Threads)

NextListRace ==
    \/ TickMono
    \/ \E t \in Threads :
         \/ CallList(t)
         \/ GetLookup(t)
         \/ GetCheck(t)
         \/ GetPop(t)
    \/ \E t \in Tasks :
         \/ AfterGet(t)
         \/ Resolve(t)
         \/ Attempt(t)
         \/ WakeUp(t)
         \/ AfterRequest(t)
         \/ Set(t)
         \/ AfterSet(t)
         \/ ToolReturn(t)

SpecListRace == InitListRace /\ [][NextListRace]_vars

\* ------------------------------------------------------------------------
\* List calls for several targets, one after the other, after a sweep that
\* has found the server of the base port and within its throttle
\* ------------------------------------------------------------------------
\* list_entities for the default server, for the server of the base port
\* and for a binary id that no server has
TargetCalls ==
    {[NoArgs EXCEPT !.tool = "list_entities", !.kind = "methods", !.binary_id = id]
        : id \in {"", BinaryId(BINJA_BASE_PORT), "default"}}

CallListFor(t) ==
    /\ tpc[t] = "idle"
    /\ \E c \in TargetCalls : StartTool(t, c)

NextListTargets ==
    \/ TickMono
    \/ \E t \in Tasks :
         \/ CallListFor(t)
         \/ GetLookup(t)
         \/ GetCheck(t)
         \/ GetPop(t)
         \/ AfterGet(t)
         \/ Resolve(t)
         \/ Attempt(t)
         \/ WakeUp(t)
         \/ AfterRequest(t)
         \/ Set(t)
         \/ AfterSet(t)
         \/ ToolReturn(t)

SpecListTargets == InitListRace /\ [][NextListTargets]_vars

NotFoundDefault == "Binary server 'default' not found"

\* C34: a list call never returns the envelope that was cached for another
\* target: the call for the binary id 'default', which no server has,
\* returns the envelope of that failure, and the call without a binary id
\* never returns it.
C34_CacheIsolation ==
    \A t \in DOMAIN tpc :
        (tpc[t] = "done" /\ call[t].tool \in ListTools) =>
            /\ call[t].binary_id = "" => tret[t][1].error # <<NotFoundDefault>>
            /\ call[t].binary_id = "default" => tret[t][1] = ListFailure(NotFoundDefault)

\* ------------------------------------------------------------------------
\* list_data and list_entities(kind="data"), one after the other, after a
\* sweep that has found the server of the base port and within its throttle
\* ------------------------------------------------------------------------
DataCalls ==
    {[NoArgs EXCEPT !.tool = "list_data"],
     [NoArgs EXCEPT !.tool = "list_entities", !.kind = "data"]}

CallListData(t) ==
    /\ tpc[t] = "idle"
    /\ \E c \in DataCalls : StartTool(t, c)

NextListData ==
    \/ TickMono
    \/ \E t \in Tasks :
         \/ CallListData(t)
         \/ GetLookup(t)
         \/ GetCheck(t)
         \/ GetPop(t)
         \/ AfterGet(t)
         \/ Resolve(t)
         \/ Attempt(t)
         \/ WakeUp(t)
         \/ AfterRequest(t)
         \/ Set(t)
         \/ AfterSet(t)
         \/ ToolReturn(t)

SpecListData == InitListRace /\ [][NextListData]_vars

\* no item of the list carries the default fields of list_data, which no
\* backend has sent
AsSent(items) == \A i \in DOMAIN items.elems : ~items.elems[i].filled

\* C35: the items that list_entities returns are the items that the backend
\* has sent, also when the envelope comes from the cache and list_data has
\* been called for the same endpoint, offset and limit since it was stored.
C35_CachedValuesUnchanged ==
    \A t \in DOMAIN tpc :
        (tpc[t] = "done" /\ call[t].tool = "list_entities") => AsSent(tret[t][1].items)
====
